---- MODULE Spec2Model ----
(***************************************************************************)
(* Model of the natural-language -> REST call chain of ai_agent:           *)
(*   IntentParser.parse_intent  (agent/intent_parser.py)                   *)
(*   ToolManager.execute_tool   (agent/tool_manager.py)                    *)
(*   get_endpoint_url           (api/endpoints.py)                         *)
(*   APIClient.request          (api/api_client.py)                        *)
(*                                                                         *)
(* Text is modelled as a sequence of tokens (one token per character for   *)
(* the action names, one token per path segment or placeholder for the     *)
(* endpoint templates), so that Python's `in`, `+` and str.replace are     *)
(* computed on the text and not assumed.  A Chinese character is written   *)
(* as the token "uXXXX" of its code point, a message of the source as its  *)
(* English gloss.  A Python dict is modelled with                          *)
(* its insertion order: a sequence of [key, value] entries with distinct   *)
(* keys.  JSON floats are modelled in hundredths, with NaN kept apart.     *)
(***************************************************************************)
EXTENDS Integers, Sequences, FiniteSets, TLC

VARIABLES
    intent_map,      \* IntentParser.intent_map (insertion-ordered dict)
    tools,           \* ToolManager.tools (insertion-ordered dict of Tool)
    retry_attempts,  \* APIClient.retry_attempts
    pc,              \* position of the call chain
    llm_response,    \* payload returned by LLMProcessor.process_input
    intent_result,   \* value returned by parse_intent
    call,            \* arguments of the running execute_tool call
    plan,            \* request execute_tool hands to the APIClient
    retry_count,     \* retry_count argument of the running APIClient.request
    sent,            \* HTTP requests issued so far by session.request
    outcomes,        \* what became of each of them, in order
    response,        \* value returned by APIClient.request
    tool_result,     \* value returned by execute_tool
    mapped_intent,   \* argument of a lone _map_to_api_action call
    mapped_action,   \* value returned by that call
    validated,       \* tool and params of a lone Tool.validate_params call
    validation,      \* value returned by that call
    provider,        \* LLMProcessor.provider
    llm_call,        \* arguments of the running process_input call
    llm_sent,        \* request bodies posted to the model provider
    llm_reply,       \* what the provider answered
    llm_result,      \* how process_input ended: a value returned or an exception
    request,         \* UserRequest of the running process_message
    conversation_history,  \* web/app.py: conversation_history
    caught,          \* exception caught by process_message, and where it rose
    answer,          \* value returned by process_message
    chains,          \* the call chains that run side by side, each with its objects
    clock            \* datetime.now() of the web process, in seconds

\* the state of the call chain
chain_vars == <<intent_map, tools, retry_attempts, pc, llm_response, intent_result,
                call, plan, retry_count, sent, outcomes, response, tool_result,
                mapped_intent, mapped_action>>

\* the state of Tool.validate_params called alone
valid_vars == <<validated, validation>>

\* the state of LLMProcessor.process_input
llm_vars == <<provider, llm_call, llm_sent, llm_reply, llm_result>>

\* the state of the web handler process_message
web_vars == <<request, conversation_history, caught, answer>>

\* what the call chain leaves alone
extension == <<valid_vars, llm_vars, web_vars, chains, clock>>

vars == <<chain_vars, extension>>

-----------------------------------------------------------------------------
(* Bounds of the explored inputs *)

MaxRetry == 2
MaxParams == 2
MaxEntries == 2
MaxTextLen == 3
MaxContentLen == 4
MaxContext == 2
MaxClock == 1
MaxConversations == 2

-----------------------------------------------------------------------------
(* Python built-ins on text and on insertion-ordered dicts *)

None == [none |-> TRUE]

\* s in t  (str.__contains__)
IsSubstring(s, t) ==
    \E i \in 0..(Len(t) - Len(s)) : SubSeq(t, i + 1, i + Len(s)) = s

Keys(d) == {d[i].key : i \in 1..Len(d)}

HasKey(d, k) == \E i \in 1..Len(d) : d[i].key = k

\* d[k]
Lookup(d, k) == d[CHOOSE i \in 1..Len(d) : d[i].key = k].value

\* {e.key: e.value for e in d.items() if keep(e.key)}
RECURSIVE DictFilter(_, _)
DictFilter(d, keep) ==
    IF d = <<>> THEN <<>>
    ELSE IF Head(d).key \in keep
         THEN <<Head(d)>> \o DictFilter(Tail(d), keep)
         ELSE DictFilter(Tail(d), keep)

\* ', '.join(xs) for a list of one-token strings
RECURSIVE Join(_)
Join(xs) ==
    IF xs = <<>> THEN <<>>
    ELSE IF Len(xs) = 1 THEN <<xs[1]>>
    ELSE <<xs[1], ", ">> \o Join(Tail(xs))

\* JSON number (hundredths) or NaN
Num(n) == [nan |-> FALSE, pct |-> n]
NaN == [nan |-> TRUE, pct |-> 0]

\* the comparison written <= in place of <
FloatLe(c, t) == ~c.nan /\ c.pct <= t

\* Python float comparison: every comparison with NaN is False
FloatLt(c, t) == ~c.nan /\ c.pct < t
FloatGe(c, t) == ~c.nan /\ c.pct >= t

-----------------------------------------------------------------------------
(* agent/intent_parser.py *)

\* the confidence threshold of parse_intent, in hundredths (0.7)
Threshold == 70

\* IntentParser.__init__: self.intent_map, in insertion order
IntentMapSource ==
  <<
    [key |-> <<"u767b", "u5f55">>,
     value |-> "login"],
    [key |-> <<"u9000", "u51fa">>,
     value |-> "logout"],
    [key |-> <<"u83b7", "u53d6", "u7528", "u6237", "u4fe1", "u606f">>,
     value |-> "get_user"],
    [key |-> <<"u521b", "u5efa", "u7528", "u6237">>,
     value |-> "create_user"],
    [key |-> <<"u66f4", "u65b0", "u7528", "u6237">>,
     value |-> "update_user"],
    [key |-> <<"u5220", "u9664", "u7528", "u6237">>,
     value |-> "delete_user"],
    [key |-> <<"u67e5", "u770b", "u6240", "u6709", "u9879", "u76ee">>,
     value |-> "list_projects"],
    [key |-> <<"u83b7", "u53d6", "u9879", "u76ee", "u4fe1", "u606f">>,
     value |-> "get_project"],
    [key |-> <<"u521b", "u5efa", "u9879", "u76ee">>,
     value |-> "create_project"],
    [key |-> <<"u66f4", "u65b0", "u9879", "u76ee">>,
     value |-> "update_project"],
    [key |-> <<"u5220", "u9664", "u9879", "u76ee">>,
     value |-> "delete_project"],
    [key |-> <<"u67e5", "u770b", "u6587", "u4ef6", "u5217", "u8868">>,
     value |-> "list_files"],
    [key |-> <<"u4e0a", "u4f20", "u6587", "u4ef6">>,
     value |-> "upload_file"],
    [key |-> <<"u4e0b", "u8f7d", "u6587", "u4ef6">>,
     value |-> "download_file"],
    [key |-> <<"u5220", "u9664", "u6587", "u4ef6">>,
     value |-> "delete_file"],
    [key |-> <<"u8fd0", "u884c", "u5206", "u6790">>,
     value |-> "run_analysis"],
    [key |-> <<"u83b7", "u53d6", "u5206", "u6790", "u7ed3", "u679c">>,
     value |-> "get_analysis_result"],
    [key |-> <<"u5bfc", "u51fa", "u62a5", "u544a">>,
     value |-> "export_report"],
    [key |-> <<"u67e5", "u770b", "u7cfb", "u7edf", "u72b6", "u6001">>,
     value |-> "get_system_status"],
    [key |-> <<"u83b7", "u53d6", "u4f7f", "u7528", "u7edf", "u8ba1">>,
     value |-> "get_usage_statistics"]
  >>

\* the fuzzy scan testing only `intent in key`
_map_contained_only(m, intent) ==
    IF HasKey(m, intent)
    THEN Lookup(m, intent)
    ELSE LET hits == {i \in 1..Len(m) : IsSubstring(intent, m[i].key)}
         IN  IF hits = {} THEN "None"
             ELSE m[CHOOSE i \in hits : \A j \in hits : i <= j].value

\* the fuzzy scan without the exact lookup before it
_map_scan_only(m, intent) ==
    LET hits == {i \in 1..Len(m) :
                    IsSubstring(m[i].key, intent) \/ IsSubstring(intent, m[i].key)}
    IN  IF hits = {} THEN "None"
        ELSE m[CHOOSE i \in hits : \A j \in hits : i <= j].value

\* the fuzzy scan keeping the last match instead of returning at the first
_map_last_match(m, intent) ==
    IF HasKey(m, intent)
    THEN Lookup(m, intent)
    ELSE LET hits == {i \in 1..Len(m) :
                         IsSubstring(m[i].key, intent) \/ IsSubstring(intent, m[i].key)}
         IN  IF hits = {} THEN "None"
             ELSE m[CHOOSE i \in hits : \A j \in hits : i >= j].value

\* IntentParser._map_to_api_action(intent), on the table m
_map_to_api_action(m, intent) ==
    IF HasKey(m, intent)
    THEN Lookup(m, intent)
    ELSE LET hits == {i \in 1..Len(m) :
                         IsSubstring(m[i].key, intent) \/ IsSubstring(intent, m[i].key)}
         IN  IF hits = {} THEN "None"
             ELSE m[CHOOSE i \in hits : \A j \in hits : i <= j].value

\* `not api_action`: None and the empty string are falsy
Falsy(api_action) == api_action = "None" \/ api_action = ""

\* llm_response.get(k, default)
Get(payload, k, default) == IF k \in DOMAIN payload THEN payload[k] ELSE default

\* [field for field in required_fields if field not in llm_response]
missing_fields(payload) ==
    SelectSeq(<<"action", "parameters">>, LAMBDA f : f \notin DOMAIN payload)

\* parse_intent with the mapping attempted before the confidence gate
parse_intent_mapping_first(m, payload) ==
    IF "error" \in DOMAIN payload
    THEN [success |-> FALSE,
          error |-> payload["error"],
          raw_response |-> payload]
    ELSE IF missing_fields(payload) # <<>>
    THEN [success |-> FALSE,
          error |-> <<"missing fields: ">> \o Join(missing_fields(payload)),
          raw_response |-> payload]
    ELSE IF Falsy(_map_to_api_action(m, payload["action"]))
    THEN [success |-> FALSE,
          error |-> <<"unsupported operation: ">> \o payload["action"],
          raw_response |-> payload]
    ELSE IF FloatLt(Get(payload, "confidence", Num(0)), Threshold)
    THEN [success |-> FALSE,
          error |-> <<"low confidence">>,
          confidence |-> Get(payload, "confidence", Num(0)),
          clarification_needed |-> TRUE,
          clarification_questions |-> Get(payload, "clarification_questions", <<>>),
          raw_response |-> payload]
    ELSE [success |-> TRUE,
          action |-> _map_to_api_action(m, payload["action"]),
          parameters |-> payload["parameters"],
          confidence |-> Get(payload, "confidence", Num(0)),
          raw_response |-> payload]

\* IntentParser.parse_intent, from the payload process_input returned
parse_intent(m, payload) ==
    IF "error" \in DOMAIN payload
    THEN [success |-> FALSE,
          error |-> payload["error"],
          raw_response |-> payload]
    ELSE IF missing_fields(payload) # <<>>
    THEN [success |-> FALSE,
          error |-> <<"missing fields: ">> \o Join(missing_fields(payload)),
          raw_response |-> payload]
    ELSE LET action == payload["action"]
             parameters == payload["parameters"]
             confidence == Get(payload, "confidence", Num(0))
         IN  IF FloatLt(confidence, Threshold)
             THEN [success |-> FALSE,
                   error |-> <<"low confidence">>,
                   confidence |-> confidence,
                   clarification_needed |-> TRUE,
                   clarification_questions |->
                       Get(payload, "clarification_questions", <<>>),
                   raw_response |-> payload]
             ELSE LET api_action == _map_to_api_action(m, action)
                  IN  IF Falsy(api_action)
                      THEN [success |-> FALSE,
                            error |-> <<"unsupported operation: ">> \o action,
                            raw_response |-> payload]
                      ELSE [success |-> TRUE,
                            action |-> api_action,
                            parameters |-> parameters,
                            confidence |-> confidence,
                            raw_response |-> payload]

-----------------------------------------------------------------------------
(* api/endpoints.py *)

\* API_ENDPOINTS, each path template split into its literal segments and
\* its {placeholder} tokens
API_ENDPOINTS ==
  <<
    [key |-> "login",
     value |-> <<"/auth/login">>],
    [key |-> "logout",
     value |-> <<"/auth/logout">>],
    [key |-> "get_user",
     value |-> <<"/users/", "{user_id}">>],
    [key |-> "create_user",
     value |-> <<"/users">>],
    [key |-> "update_user",
     value |-> <<"/users/", "{user_id}">>],
    [key |-> "delete_user",
     value |-> <<"/users/", "{user_id}">>],
    [key |-> "list_projects",
     value |-> <<"/projects">>],
    [key |-> "get_project",
     value |-> <<"/projects/", "{project_id}">>],
    [key |-> "create_project",
     value |-> <<"/projects">>],
    [key |-> "update_project",
     value |-> <<"/projects/", "{project_id}">>],
    [key |-> "delete_project",
     value |-> <<"/projects/", "{project_id}">>],
    [key |-> "list_files",
     value |-> <<"/projects/", "{project_id}", "/files">>],
    [key |-> "upload_file",
     value |-> <<"/projects/", "{project_id}", "/files">>],
    [key |-> "download_file",
     value |-> <<"/projects/", "{project_id}", "/files/", "{file_id}">>],
    [key |-> "delete_file",
     value |-> <<"/projects/", "{project_id}", "/files/", "{file_id}">>],
    [key |-> "run_analysis",
     value |-> <<"/analysis">>],
    [key |-> "get_analysis_result",
     value |-> <<"/analysis/", "{analysis_id}">>],
    [key |-> "export_report",
     value |-> <<"/reports/", "{report_id}", "/export">>],
    [key |-> "get_system_status",
     value |-> <<"/system/status">>],
    [key |-> "get_usage_statistics",
     value |-> <<"/system/statistics">>]
  >>

\* "{" + key + "}"
Placeholder(key) == "{" \o key \o "}"

\* placeholder in endpoint
Contains(endpoint, tok) == \E i \in 1..Len(endpoint) : endpoint[i] = tok

\* endpoint.replace(placeholder, str(value)): every occurrence in the text
\* as it stands, text put there by an earlier replace included
RECURSIVE Replace(_, _, _)
Replace(endpoint, placeholder, value) ==
    IF endpoint = <<>> THEN <<>>
    ELSE (IF Head(endpoint) = placeholder THEN value ELSE <<Head(endpoint)>>)
         \o Replace(Tail(endpoint), placeholder, value)

\* the loop of get_endpoint_url over kwargs.items(), in kwargs order
RECURSIVE FillPath(_, _)
FillPath(endpoint, kwargs) ==
    IF kwargs = <<>> THEN endpoint
    ELSE LET placeholder == Placeholder(Head(kwargs).key)
         IN  FillPath(IF Contains(endpoint, placeholder)
                      THEN Replace(endpoint, placeholder, Head(kwargs).value)
                      ELSE endpoint,
                      Tail(kwargs))

\* get_endpoint_url(action_name, **kwargs); raises ValueError on an unknown action
get_endpoint_url(action_name, kwargs) ==
    IF ~HasKey(API_ENDPOINTS, action_name)
    THEN [raised |-> TRUE, error |-> <<"unknown API action: ", action_name>>]
    ELSE [raised |-> FALSE,
          endpoint |-> FillPath(Lookup(API_ENDPOINTS, action_name), kwargs)]

-----------------------------------------------------------------------------
(* agent/tool_manager.py *)

\* str.upper() on the method names that occur
Upper(method) ==
    CASE method = "get" -> "GET"
      [] method = "post" -> "POST"
      [] method = "put" -> "PUT"
      [] method = "delete" -> "DELETE"
      [] method = "patch" -> "PATCH"
      [] method = "head" -> "HEAD"
      [] OTHER -> method

\* Tool.__init__
Tool(name, method, endpoint_action, required_params, optional_params, validation_func) ==
    [name |-> name,
     method |-> Upper(method),
     endpoint_action |-> endpoint_action,
     required_params |-> required_params,
     optional_params |-> optional_params,
     validation_func |-> validation_func]

\* ToolManager._register_tools, in insertion order
_register_tools ==
  <<
    [key |-> "login",
     value |-> Tool("login", "POST", "login",
                   <<"username", "password">>,
                   <<>>, "None")],
    [key |-> "logout",
     value |-> Tool("logout", "POST", "logout",
                   <<>>,
                   <<>>, "None")],
    [key |-> "get_user",
     value |-> Tool("get_user", "GET", "get_user",
                   <<"user_id">>,
                   <<>>, "None")],
    [key |-> "create_user",
     value |-> Tool("create_user", "POST", "create_user",
                   <<"username", "email">>,
                   <<"first_name", "last_name", "role">>, "None")],
    [key |-> "update_user",
     value |-> Tool("update_user", "PUT", "update_user",
                   <<"user_id">>,
                   <<"email", "first_name", "last_name", "role">>, "None")],
    [key |-> "delete_user",
     value |-> Tool("delete_user", "DELETE", "delete_user",
                   <<"user_id">>,
                   <<>>, "None")],
    [key |-> "list_projects",
     value |-> Tool("list_projects", "GET", "list_projects",
                   <<>>,
                   <<"page", "limit", "sort_by">>, "None")],
    [key |-> "get_project",
     value |-> Tool("get_project", "GET", "get_project",
                   <<"project_id">>,
                   <<>>, "None")],
    [key |-> "create_project",
     value |-> Tool("create_project", "POST", "create_project",
                   <<"name">>,
                   <<"description", "owner_id", "type", "tags">>, "None")],
    [key |-> "update_project",
     value |-> Tool("update_project", "PUT", "update_project",
                   <<"project_id">>,
                   <<"name", "description", "owner_id", "type", "tags", "status">>, "None")],
    [key |-> "delete_project",
     value |-> Tool("delete_project", "DELETE", "delete_project",
                   <<"project_id">>,
                   <<>>, "None")],
    [key |-> "list_files",
     value |-> Tool("list_files", "GET", "list_files",
                   <<"project_id">>,
                   <<"page", "limit", "type", "sort_by">>, "None")],
    [key |-> "upload_file",
     value |-> Tool("upload_file", "POST", "upload_file",
                   <<"project_id", "file_data">>,
                   <<"file_name", "file_type", "description">>, "None")],
    [key |-> "download_file",
     value |-> Tool("download_file", "GET", "download_file",
                   <<"project_id", "file_id">>,
                   <<>>, "None")],
    [key |-> "delete_file",
     value |-> Tool("delete_file", "DELETE", "delete_file",
                   <<"project_id", "file_id">>,
                   <<>>, "None")],
    [key |-> "run_analysis",
     value |-> Tool("run_analysis", "POST", "run_analysis",
                   <<"project_id", "analysis_type">>,
                   <<"parameters", "input_file_ids", "options">>, "None")],
    [key |-> "get_analysis_result",
     value |-> Tool("get_analysis_result", "GET", "get_analysis_result",
                   <<"analysis_id">>,
                   <<>>, "None")],
    [key |-> "export_report",
     value |-> Tool("export_report", "GET", "export_report",
                   <<"report_id">>,
                   <<"format", "include_charts">>, "None")],
    [key |-> "get_system_status",
     value |-> Tool("get_system_status", "GET", "get_system_status",
                   <<>>,
                   <<>>, "None")],
    [key |-> "get_usage_statistics",
     value |-> Tool("get_usage_statistics", "GET", "get_usage_statistics",
                   <<>>,
                   <<"start_date", "end_date", "user_id", "project_id">>, "None")]
  >>

\* utils/validators.py: valid_types of validate_analysis_params
valid_types ==
    <<"statistical", "predictive", "descriptive", "diagnostic", "prescriptive">>

\* json.loads(text) succeeds: of the parameter texts that occur, only the
\* digit text is JSON
JsonLoads(text) == text = <<"7">>

\* utils/validators.py: validate_analysis_params (parameter values are strings)
validate_analysis_params(params) ==
    IF HasKey(params, "analysis_type")
       /\ ~\E i \in 1..Len(valid_types) : Lookup(params, "analysis_type") = <<valid_types[i]>>
    THEN [is_valid |-> FALSE,
          error_msg |-> <<"analysis type must be one of: ">> \o Join(valid_types)]
    ELSE IF HasKey(params, "parameters") /\ ~JsonLoads(Lookup(params, "parameters"))
    THEN [is_valid |-> FALSE,
          error_msg |-> <<"parameters must be a valid object or JSON string">>]
    ELSE [is_valid |-> TRUE, error_msg |-> <<>>]

\* self.validation_func(params)
validation_func(f, params) ==
    CASE f = "validate_analysis_params" -> validate_analysis_params(params)
      [] OTHER -> [is_valid |-> TRUE, error_msg |-> <<>>]

\* the validation that checks nothing before it runs the validator
validate_params_validator_first(tool, params) ==
    IF tool.validation_func # "None"
       /\ ~validation_func(tool.validation_func, params).is_valid
    THEN [is_valid |-> FALSE,
          error_msg |-> validation_func(tool.validation_func, params).error_msg]
    ELSE LET missing == {i \in 1..Len(tool.required_params) :
                            ~HasKey(params, tool.required_params[i])}
         IN  IF missing # {}
             THEN [is_valid |-> FALSE,
                   error_msg |-> <<"missing required parameter: ",
                                   tool.required_params[CHOOSE i \in missing :
                                                           \A j \in missing : i <= j]>>]
             ELSE [is_valid |-> TRUE, error_msg |-> <<>>]

\* Tool.validate_params
validate_params(tool, params) ==
    LET missing == {i \in 1..Len(tool.required_params) :
                       ~HasKey(params, tool.required_params[i])}
    IN  IF missing # {}
        THEN [is_valid |-> FALSE,
              error_msg |-> <<"missing required parameter: ",
                              tool.required_params[CHOOSE i \in missing :
                                                      \A j \in missing : i <= j]>>]
        ELSE IF tool.validation_func # "None"
                /\ ~validation_func(tool.validation_func, params).is_valid
        THEN [is_valid |-> FALSE,
              error_msg |-> validation_func(tool.validation_func, params).error_msg]
        ELSE [is_valid |-> TRUE, error_msg |-> <<>>]

\* a lookup that falls back on the first tool: self.tools.get(name, first)
get_tool_default(tls, tool_name) ==
    IF HasKey(tls, tool_name) THEN Lookup(tls, tool_name) ELSE tls[1].value

\* ToolManager.get_tool
get_tool(tls, tool_name) ==
    IF HasKey(tls, tool_name) THEN Lookup(tls, tool_name) ELSE None

\* an Optional[Dict] argument that is given
Dict(d) == [dict |-> d]

\* APIClient.get / post / put / delete / patch: the arguments of request
get(endpoint, params) ==
    [method |-> "GET", endpoint |-> endpoint, params |-> Dict(params),
     data |-> None, headers |-> None]
post(endpoint, data, params) ==
    [method |-> "POST", endpoint |-> endpoint, params |-> Dict(params),
     data |-> Dict(data), headers |-> None]
put(endpoint, data, params) ==
    [method |-> "PUT", endpoint |-> endpoint, params |-> Dict(params),
     data |-> Dict(data), headers |-> None]
delete(endpoint, params) ==
    [method |-> "DELETE", endpoint |-> endpoint, params |-> Dict(params),
     data |-> None, headers |-> None]
patch(endpoint, data, params) ==
    [method |-> "PATCH", endpoint |-> endpoint, params |-> Dict(params),
     data |-> Dict(data), headers |-> None]

\* names in the list tool.required_params
Required(tool) == {tool.required_params[i] : i \in 1..Len(tool.required_params)}

\* an execute_tool that passes no parameter on to get_endpoint_url
endpoint_params_none(tool, params) == <<>>

\* execute_tool: endpoint_params, the parameters that fill the path
endpoint_params(tool, params) ==
    DictFilter(params,
               {k \in Keys(params) :
                   k \in Required(tool)
                   /\ Contains(Lookup(API_ENDPOINTS, tool.endpoint_action),
                               Placeholder(k))})

\* execute_tool: {key: value for key, value in params.items()
\*                if key not in endpoint_params}
rest_params(tool, params) ==
    DictFilter(params, Keys(params) \ Keys(endpoint_params(tool, params)))

\* the query parameters filled for GET alone
api_params_get_only(tool, params) ==
    IF tool.method = "GET" THEN rest_params(tool, params) ELSE <<>>

\* execute_tool: api_params, the query parameters
api_params(tool, params) ==
    IF tool.method \in {"GET", "DELETE"} THEN rest_params(tool, params) ELSE <<>>

\* execute_tool: api_data, the request body
api_data(tool, params) ==
    IF tool.method \in {"GET", "DELETE"} THEN <<>> ELSE rest_params(tool, params)

\* ToolManager.execute_tool up to its call of the APIClient: either the value
\* it returns at once, or the request it hands to the client
execute_tool(tls, tool_name, params) ==
    LET tool == get_tool(tls, tool_name)
    IN  IF tool = None
        THEN [returns |-> TRUE,
              result |-> [success |-> FALSE,
                          error |-> <<"tool not found: ", tool_name>>]]
        ELSE IF ~validate_params(tool, params).is_valid
        THEN [returns |-> TRUE,
              result |-> [success |-> FALSE,
                          error |-> validate_params(tool, params).error_msg]]
        ELSE IF ~HasKey(API_ENDPOINTS, tool.endpoint_action)
        THEN [returns |-> TRUE,
              result |-> [success |-> FALSE,
                          error |-> <<"tool execution exception: ">>
                                    \o (IF Keys(params) \cap Required(tool) # {}
                                        THEN <<"'", tool.endpoint_action, "'">>
                                        ELSE get_endpoint_url(tool.endpoint_action,
                                                              <<>>).error)]]
        ELSE LET endpoint == get_endpoint_url(tool.endpoint_action,
                                              endpoint_params(tool, params)).endpoint
                 params_ == api_params(tool, params)
                 data_ == api_data(tool, params)
             IN  CASE tool.method = "GET" ->
                        [returns |-> FALSE, request |-> get(endpoint, params_)]
                   [] tool.method = "POST" ->
                        [returns |-> FALSE, request |-> post(endpoint, data_, params_)]
                   [] tool.method = "PUT" ->
                        [returns |-> FALSE, request |-> put(endpoint, data_, params_)]
                   [] tool.method = "DELETE" ->
                        [returns |-> FALSE, request |-> delete(endpoint, params_)]
                   [] tool.method = "PATCH" ->
                        [returns |-> FALSE, request |-> patch(endpoint, data_, params_)]
                   [] OTHER ->
                        [returns |-> TRUE,
                         result |-> [success |-> FALSE,
                                     error |-> <<"unsupported HTTP method: ",
                                                 tool.method>>]]

\* execute_tool after the client answered: the check of the response
tool_response(tool_name, resp) ==
    IF "error" \in DOMAIN resp
    THEN [success |-> FALSE,
          error |-> resp["error"],
          details |-> IF "details" \in DOMAIN resp THEN resp["details"] ELSE <<>>]
    ELSE [success |-> TRUE, tool |-> tool_name, result |-> resp]

-----------------------------------------------------------------------------
(* api/api_client.py *)

\* API_CONFIG["base_url"], its default
base_url == "https://api.yoursoftware.com"

\* names of the {placeholder} tokens of API_ENDPOINTS
PathParamNames == {"user_id", "project_id", "file_id", "analysis_id", "report_id"}

\* the literal segments of the templates; each of them begins with "/"
LiteralSegments ==
    UNION {{Lookup(API_ENDPOINTS, a)[i] : i \in 1..Len(Lookup(API_ENDPOINTS, a))} :
              a \in Keys(API_ENDPOINTS)}
    \ {Placeholder(k) : k \in PathParamNames}

\* APIClient._make_url; startswith is decided on the first token of the text
_make_url(endpoint) ==
    IF endpoint # <<>> /\ endpoint[1] = base_url
    THEN endpoint
    ELSE IF ~(endpoint # <<>> /\ endpoint[1] \in LiteralSegments)
    THEN <<base_url, "/">> \o endpoint
    ELSE <<base_url>> \o endpoint

\* the call of self.session.request in APIClient.request
HttpRequest(args) ==
    [method |-> Upper(args.method),
     url |-> _make_url(args.endpoint),
     params |-> args.params,
     json |-> args.data,
     headers |-> IF args.headers = None THEN Dict(<<>>) ELSE args.headers]

\* response.raise_for_status() raises HTTPError
RaisesForStatus(status_code) == status_code >= 400 /\ status_code < 600

\* APIClient._handle_response.  json_error_is_request_exception: whether the
\* installed requests raises, from response.json(), an error that is a
\* RequestException (caught by the second except clause) or a plain
\* json.JSONDecodeError (caught by the third)
_handle_response(resp, json_error_is_request_exception) ==
    IF RaisesForStatus(resp.status_code)
    THEN [error |-> <<"HTTP error ", ToString(resp.status_code)>>,
          details |-> IF resp.decodes THEN resp.body
                      ELSE [status_code |-> resp.status_code, text |-> resp.text]]
    ELSE IF resp.decodes
    THEN resp.body
    ELSE IF json_error_is_request_exception
    THEN [error |-> <<"Expecting value">>]
    ELSE [error |-> <<"cannot parse response JSON">>, text |-> resp.text]

-----------------------------------------------------------------------------
(* agent/llm_processor.py *)

\* Python values decoded from JSON
JNull == [kind |-> "null"]
JNumber == [kind |-> "number"]
JString(text) == [kind |-> "string", text |-> text]
JArray(items) == [kind |-> "array", items |-> items]
JObject(members) == [kind |-> "object", members |-> members]

\* an exception leaves the function / the function returns a value
Raises(exception) == [raised |-> TRUE, exception |-> exception]
Returns(value) == [raised |-> FALSE, value |-> value]

\* the JSON decoder on a text of tokens "{", "}", "k:" (a member name and its
\* colon), "1" (a number) and "w" (a word of prose): the value that begins
\* the text, and the text left after it
RECURSIVE raw_decode(_)
raw_decode(text) ==
    IF text = <<>> THEN [ok |-> FALSE]
    ELSE IF Head(text) = "1"
    THEN [ok |-> TRUE, value |-> JNumber, rest |-> Tail(text)]
    ELSE IF Head(text) = "{" /\ Len(text) >= 2 /\ text[2] = "}"
    THEN [ok |-> TRUE, value |-> JObject(<<>>), rest |-> SubSeq(text, 3, Len(text))]
    ELSE IF Head(text) = "{" /\ Len(text) >= 2 /\ text[2] = "k:"
    THEN LET member == raw_decode(SubSeq(text, 3, Len(text)))
         IN  IF member.ok /\ member.rest # <<>> /\ Head(member.rest) = "}"
             THEN [ok |-> TRUE,
                   value |-> JObject(<<[key |-> "k", value |-> member.value]>>),
                   rest |-> Tail(member.rest)]
             ELSE [ok |-> FALSE]
    ELSE [ok |-> FALSE]

\* json.loads(text): raises json.JSONDecodeError when ok is FALSE
json_loads(text) ==
    LET r == raw_decode(text)
    IN  IF r.ok /\ r.rest = <<>> THEN [ok |-> TRUE, value |-> r.value]
        ELSE [ok |-> FALSE]

\* str.find and str.rfind of a one-token text: 0-based index, -1 when absent
find(text, tok) ==
    IF \E i \in 1..Len(text) : text[i] = tok
    THEN (CHOOSE i \in 1..Len(text) :
             text[i] = tok /\ \A j \in 1..(i - 1) : text[j] # tok) - 1
    ELSE -1
rfind(text, tok) ==
    IF \E i \in 1..Len(text) : text[i] = tok
    THEN (CHOOSE i \in 1..Len(text) :
             text[i] = tok /\ \A j \in (i + 1)..Len(text) : text[j] # tok) - 1
    ELSE -1

\* {"error": message}
ErrorObject(message) == JObject(<<[key |-> "error", value |-> JString(message)]>>)

\* {"error": message, "raw_response": content}
ParseFailure(message, content) ==
    JObject(<<[key |-> "error", value |-> JString(message)],
              [key |-> "raw_response", value |-> JString(content)]>>)

\* the extraction with json_end = content.rfind("}"), the + 1 left out
extract_json_end_short(content) ==
    IF json_loads(content).ok
    THEN json_loads(content).value
    ELSE LET json_start == find(content, "{")
             json_end == rfind(content, "}")
         IN  IF json_start >= 0 /\ json_end > json_start
             THEN LET json_str == SubSeq(content, json_start + 1, json_end)
                  IN  IF json_loads(json_str).ok
                      THEN json_loads(json_str).value
                      ELSE ParseFailure(<<"cannot parse the model response">>, content)
             ELSE ParseFailure(<<"no JSON found in the response">>, content)

\* _call_openai_api / _call_anthropic_api: the extraction of the JSON from content
extract_json(content) ==
    IF json_loads(content).ok
    THEN json_loads(content).value
    ELSE LET json_start == find(content, "{")
             json_end == rfind(content, "}") + 1
         IN  IF json_start >= 0 /\ json_end > json_start
             THEN LET json_str == SubSeq(content, json_start + 1, json_end)
                  IN  IF json_loads(json_str).ok
                      THEN json_loads(json_str).value
                      ELSE ParseFailure(<<"cannot parse the model response">>, content)
             ELSE ParseFailure(<<"no JSON found in the response">>, content)

\* value[k]: k a member name, or "[0]" for the subscript 0
GetItem(value, k) ==
    IF k = "[0]"
    THEN CASE value.kind = "array" ->
                 IF value.items # <<>> THEN Returns(value.items[1])
                 ELSE Raises("IndexError")
           [] value.kind = "string" ->
                 IF value.text # <<>> THEN Returns(JString(<<value.text[1]>>))
                 ELSE Raises("IndexError")
           [] value.kind = "object" -> Raises("KeyError")
           [] OTHER -> Raises("TypeError")
    ELSE CASE value.kind = "object" ->
                 IF HasKey(value.members, k) THEN Returns(Lookup(value.members, k))
                 ELSE Raises("KeyError")
           [] OTHER -> Raises("TypeError")

\* value[path[1]][path[2]]...
RECURSIVE GetPath(_, _)
GetPath(value, path) ==
    IF path = <<>> THEN Returns(value)
    ELSE LET item == GetItem(value, Head(path))
         IN  IF item.raised THEN item ELSE GetPath(item.value, Tail(path))

\* where each provider's response carries the text of the model
ContentPath(p) ==
    IF p = "openai" THEN <<"choices", "[0]", "message", "content">>
    ELSE <<"content", "[0]", "text">>

\* the fixed system instruction
SystemPrompt == <<"system instruction">>

Message(role, content) == [role |-> role, content |-> content]

\* _call_openai_api: the messages of the request body
openai_messages(user_input, context) ==
    (IF context # <<>> THEN context ELSE <<>>)
    \o <<Message("system", SystemPrompt)>>
    \o <<Message("user", user_input)>>

\* _call_anthropic_api: the loop over context
RECURSIVE anthropic_context(_)
anthropic_context(context) ==
    IF context = <<>> THEN <<>>
    ELSE (IF Head(context).role \in {"user", "assistant"}
          THEN <<Message(Head(context).role, Head(context).content)>>
          ELSE <<>>)
         \o anthropic_context(Tail(context))

\* the request body posted to the provider
RequestData(p, user_input, context) ==
    IF p = "openai"
    THEN [url |-> "/chat/completions",
          messages |-> openai_messages(user_input, context)]
    ELSE [url |-> "/messages",
          system |-> SystemPrompt,
          messages |-> anthropic_context(context) \o <<Message("user", user_input)>>]

\* the try block of _call_openai_api / _call_anthropic_api once the provider
\* has answered with reply
call_api(p, reply, json_error_is_request_exception) ==
    IF reply.kind = "failure"
    THEN Returns(ErrorObject(<<"API request failed: ", reply.reason>>))
    ELSE IF RaisesForStatus(reply.status_code)
    THEN Returns(ErrorObject(<<"API request failed: ", "HTTP error ",
                               ToString(reply.status_code)>>))
    ELSE IF ~reply.decodes
    THEN IF json_error_is_request_exception
         THEN Returns(ErrorObject(<<"API request failed: ", "Expecting value">>))
         ELSE Raises("JSONDecodeError")
    ELSE LET content == GetPath(reply.body, ContentPath(p))
         IN  IF content.raised THEN content
             ELSE IF content.value.kind # "string" THEN Raises("TypeError")
             ELSE Returns(extract_json(content.value.text))

-----------------------------------------------------------------------------
(* Inputs *)

\* action texts a model payload may carry
ActionTexts ==
    {
     <<"u767b", "u5f55">>,
         \* deng lu, an exact key
     <<"u83b7", "u53d6", "u9879", "u76ee", "u4fe1", "u606f">>,
         \* huo qu xiang mu xin xi, an exact key
     <<"u83b7", "u53d6", "u9879", "u76ee", "u7684", "u4fe1", "u606f">>,
         \* the same with 'de' inserted
     <<"u8bf7", "u83b7", "u53d6", "u9879", "u76ee", "u4fe1", "u606f">>,
         \* the same after 'qing'
     <<"u4e0b", "u8f7d", "u6587", "u4ef6">>,
         \* xia zai wen jian, an exact key
     <<"u66f4", "u65b0", "u9879", "u76ee">>,
         \* geng xin xiang mu, an exact key
     <<"u9000", "u51fa">>,
         \* tui chu, an exact key
     <<"u9879", "u76ee">>,
         \* xiang mu, part of several keys
     <<"u8bf7", "u5220", "u9664", "u6587", "u4ef6">>,
         \* qing shan chu wen jian, contains a key
     <<"u6253", "u5f00", "u95e8">>,
         \* da kai men, no key
     <<>>,
         \* the empty string
     <<"a", "b">>
         \* text in another alphabet
    }

\* names and texts of the parameters a payload or a caller may supply
ParamNames == {"project_id", "file_id", "page"}
ParamValues == {<<"7">>, <<"{file_id}">>}

\* insertion-ordered dicts of at most n parameters
RECURSIVE ParamDicts(_)
ParamDicts(n) ==
    IF n = 0 THEN {<<>>}
    ELSE ParamDicts(n - 1)
         \cup {Append(d, [key |-> k, value |-> v]) :
                  d \in {e \in ParamDicts(n - 1) : Len(e) = n - 1},
                  k \in ParamNames, v \in ParamValues}

Params == {d \in ParamDicts(MaxParams) : Cardinality(Keys(d)) = Len(d)}

Confidences == {Num(69), Num(70), Num(100), NaN}

Questions == {<<"which project?">>}

\* a payload with the keys K
Payload(K, action, parameters, confidence, questions) ==
    [k \in K |->
        CASE k = "action" -> action
          [] k = "parameters" -> parameters
          [] k = "confidence" -> confidence
          [] k = "clarification_questions" -> questions
          [] k = "error" -> <<"cannot parse the model response">>
          [] k = "raw_response" -> <<"Sure!">>]

\* the parameter dicts carried by the payloads
PayloadParams ==
    {<<>>,
     <<[key |-> "project_id", value |-> <<"7">>]>>,
     <<[key |-> "project_id", value |-> <<"7">>], [key |-> "page", value |-> <<"7">>]>>,
     <<[key |-> "file_id", value |-> <<"7">>], [key |-> "project_id", value |-> <<"7">>]>>,
     <<[key |-> "project_id", value |-> <<"{file_id}">>],
       [key |-> "file_id", value |-> <<"7">>]>>}

\* the payloads process_input may return: error mappings, and decoded
\* objects with any of the four keys present or absent
Payloads ==
    {Payload(K, <<"u767b", "u5f55">>, <<>>, Num(100), <<>>) :
        K \in {{"error"}, {"error", "raw_response"},
               {"error", "action", "parameters", "confidence"}}}
    \cup
    {Payload(K, a, p, c, q) :
        K \in SUBSET {"action", "parameters", "confidence", "clarification_questions"},
        a \in ActionTexts, p \in PayloadParams, c \in Confidences, q \in Questions}

\* tool names a direct caller of execute_tool may pass
ToolNames == Keys(tools) \cup {"unknown_tool"}

\* responses of the target API
Responses ==
    {[status_code |-> 200, decodes |-> TRUE, body |-> b, text |-> <<"{...}">>] :
        b \in {[id |-> <<"7">>], [error |-> <<"quota exceeded">>]}}
    \cup
    {[status_code |-> s, decodes |-> TRUE,
      body |-> [detail |-> <<"refused">>], text |-> <<"{...}">>] : s \in {404, 500}}
    \cup
    {[status_code |-> s, decodes |-> FALSE, body |-> None, text |-> <<"<html>">>] :
        s \in {200, 404, 500}}

-----------------------------------------------------------------------------
(* The call chain *)

\* the state after construction, but for the two tables and the chains run
\* side by side
ConstructedOne ==
    /\ retry_attempts \in 0..MaxRetry
    /\ pc = "start"
    /\ llm_response = None
    /\ intent_result = None
    /\ call = None
    /\ plan = None
    /\ retry_count = 0
    /\ sent = <<>>
    /\ outcomes = <<>>
    /\ response = None
    /\ tool_result = None
    /\ mapped_intent = <<>>
    /\ mapped_action = "None"
    /\ validated = None
    /\ validation = None
    /\ llm_call = None
    /\ llm_sent = <<>>
    /\ llm_reply = None
    /\ llm_result = None
    /\ request = None
    /\ caught = None
    /\ answer = None
    /\ clock = 0

\* the state after construction when one chain runs
Constructed ==
    /\ ConstructedOne
    /\ chains = <<>>

Init ==
    /\ intent_map = IntentMapSource
    /\ tools = _register_tools
    /\ provider = "openai"
    /\ conversation_history = <<>>
    /\ Constructed

\* parse_intent(user_input, context), process_input answering with payload
ParseIntent(payload) ==
    /\ pc = "start"
    /\ llm_response' = payload
    /\ intent_result' = parse_intent(intent_map, payload)
    /\ pc' = IF parse_intent(intent_map, payload).success THEN "parsed" ELSE "done"
    /\ UNCHANGED <<intent_map, tools, retry_attempts, call, plan, retry_count,
                   sent, outcomes, response, tool_result, mapped_intent,
                   mapped_action, extension>>

\* execute_tool(tool_name, params) up to the first session.request
Execute(tool_name, params, origin) ==
    LET r == execute_tool(tools, tool_name, params)
    IN  /\ call' = [tool_name |-> tool_name, params |-> params, origin |-> origin]
        /\ IF r.returns
           THEN /\ tool_result' = r.result
                /\ pc' = "done"
                /\ UNCHANGED <<plan, sent>>
           ELSE /\ plan' = r.request
                /\ sent' = Append(sent, HttpRequest(r.request))
                /\ pc' = "http"
                /\ UNCHANGED tool_result
        /\ retry_count' = 0
        /\ UNCHANGED <<intent_map, tools, retry_attempts, llm_response,
                       intent_result, outcomes, response, mapped_intent,
                       mapped_action, extension>>

\* the chain: execute_tool(action, parameters) on a successful resolution
ExecuteTool ==
    /\ pc = "parsed"
    /\ Execute(intent_result.action, intent_result.parameters, "chain")

\* a direct call of ToolManager.execute_tool
ExecuteToolDirect(tool_name, params) ==
    /\ pc = "start"
    /\ Execute(tool_name, params, "direct")

\* the request in flight ends in outcome, APIClient.request returns resp,
\* execute_tool checks it and returns
Return(outcome, resp) ==
    /\ outcomes' = Append(outcomes, outcome)
    /\ response' = resp
    /\ tool_result' = tool_response(call.tool_name, resp)
    /\ pc' = "done"
    /\ UNCHANGED <<intent_map, tools, retry_attempts, llm_response, intent_result,
                   call, plan, retry_count, sent, mapped_intent, mapped_action,
                   extension>>

\* the recursive call with params and data in each other's position
retry_swapped(args) ==
    [method |-> args.method, endpoint |-> args.endpoint, params |-> args.data,
     data |-> args.params, headers |-> args.headers]

\* return self.request(method, endpoint, params, data, headers, retry_count + 1):
\* the arguments of the recursive call, retry_count apart
retry(args) ==
    [method |-> args.method, endpoint |-> args.endpoint, params |-> args.params,
     data |-> args.data, headers |-> args.headers]

\* the retry test written <= in place of <
ShouldRetryOnceMore(count, attempts) == count <= attempts

\* if retry_count < self.retry_attempts
ShouldRetry(count, attempts) == count < attempts

\* except requests.exceptions.Timeout: sleep and call request again with
\* retry_count + 1, or give up
Timeout ==
    /\ pc = "http"
    /\ IF ShouldRetry(retry_count, retry_attempts)
       THEN /\ outcomes' = Append(outcomes, "timeout")
            /\ retry_count' = retry_count + 1
            /\ sent' = Append(sent, HttpRequest(retry(plan)))
            /\ UNCHANGED <<intent_map, tools, retry_attempts, pc, llm_response,
                           intent_result, call, plan, response, tool_result,
                           mapped_intent, mapped_action, extension>>
       ELSE Return("timeout", [error |-> <<"request timed out">>])

\* the failure handled as the timeout is: retried while attempts are left
RequestExceptionRetried ==
    /\ pc = "http"
    /\ IF ShouldRetry(retry_count, retry_attempts)
       THEN /\ outcomes' = Append(outcomes, "failure")
            /\ retry_count' = retry_count + 1
            /\ sent' = Append(sent, HttpRequest(retry(plan)))
            /\ UNCHANGED <<intent_map, tools, retry_attempts, pc, llm_response,
                           intent_result, call, plan, response, tool_result,
                           mapped_intent, mapped_action, extension>>
       ELSE Return("failure", [error |-> <<"connection failed">>])

\* except requests.exceptions.RequestException: any other transport failure
RequestException ==
    /\ pc = "http"
    /\ Return("failure", [error |-> <<"connection failed">>])

\* a response arrives: return self._handle_response(response)
HandleResponse(resp, json_error_is_request_exception) ==
    /\ pc = "http"
    /\ Return("response", _handle_response(resp, json_error_is_request_exception))

Next ==
    \/ \E payload \in Payloads : ParseIntent(payload)
    \/ ExecuteTool
    \/ \E tool_name \in ToolNames, params \in Params :
          ExecuteToolDirect(tool_name, params)
    \/ Timeout
    \/ RequestException
    \/ \E resp \in Responses, b \in BOOLEAN : HandleResponse(resp, b)

Spec == Init /\ [][Next]_vars

-----------------------------------------------------------------------------
(* execute_tool over a registry that also holds tools of the other methods *)

\* tools a caller may add with Tool(...): a PATCH tool given in lower case,
\* a tool of a method execute_tool does not dispatch
ExtraTools ==
  <<
    [key |-> "patch_project",
     value |-> Tool("patch_project", "patch", "update_project",
                   <<"project_id">>,
                   <<"name", "page">>, "None")],
    [key |-> "head_project",
     value |-> Tool("head_project", "head", "get_project",
                   <<"project_id">>,
                   <<>>, "None")]
  >>

InitTool ==
    /\ intent_map = IntentMapSource
    /\ tools = _register_tools \o ExtraTools
    /\ provider = "openai"
    /\ conversation_history = <<>>
    /\ Constructed

SpecTool == InitTool /\ [][Next]_vars

-----------------------------------------------------------------------------
(* _map_to_api_action and parse_intent over small action-name tables *)

\* texts over the alphabet {a, b} of length 1..n
RECURSIVE TextsUpTo(_)
TextsUpTo(n) ==
    IF n = 0 THEN {}
    ELSE TextsUpTo(n - 1)
         \cup {<<c>> : c \in {"a", "b"}}
         \cup {Append(t, c) : t \in TextsUpTo(n - 1), c \in {"a", "b"}}

\* the value of the i-th entry of a small table
EntryValue(i) == <<"login", "logout", "get_user", "create_user">>[i]

\* keys of the small tables: texts that contain one another, and that do not
KeyTexts == {<<"a">>, <<"b">>, <<"a", "b">>, <<"b", "a">>, <<"a", "a">>}

\* insertion-ordered tables of at most n entries with keys of KeyTexts
RECURSIVE TablesUpTo(_)
TablesUpTo(n) ==
    IF n = 0 THEN {<<>>}
    ELSE TablesUpTo(n - 1)
         \cup {Append(m, [key |-> k, value |-> EntryValue(n)]) :
                  m \in {e \in TablesUpTo(n - 1) : Len(e) = n - 1},
                  k \in KeyTexts}

Tables == {m \in TablesUpTo(MaxEntries) : Cardinality(Keys(m)) = Len(m)}

Texts == TextsUpTo(MaxTextLen) \cup {<<>>}

MapPayloads ==
    {Payload(K, a, <<>>, c, <<>>) :
        K \in SUBSET {"action", "parameters", "confidence"},
        a \in Texts, c \in Confidences}

InitMap ==
    /\ intent_map \in Tables \cup {IntentMapSource}
    /\ tools = _register_tools
    /\ provider = "openai"
    /\ conversation_history = <<>>
    /\ Constructed

\* a call of _map_to_api_action(intent)
MapToApiAction(text) ==
    /\ pc = "start"
    /\ mapped_intent' = text
    /\ mapped_action' = _map_to_api_action(intent_map, text)
    /\ pc' = "mapped"
    /\ UNCHANGED <<intent_map, tools, retry_attempts, llm_response, intent_result,
                   call, plan, retry_count, sent, outcomes, response, tool_result,
                   extension>>

NextMap ==
    \/ \E text \in Texts \cup ActionTexts : MapToApiAction(text)
    \/ \E payload \in MapPayloads : ParseIntent(payload)

SpecMap == InitMap /\ [][NextMap]_vars

-----------------------------------------------------------------------------
(* Tool.validate_params called alone, also on tools that declare a validator *)

\* insertion-ordered dicts of at most n entries over the given names and texts
RECURSIVE DictsOver(_, _, _)
DictsOver(names, texts, n) ==
    IF n = 0 THEN {<<>>}
    ELSE DictsOver(names, texts, n - 1)
         \cup {e \in {Append(d, [key |-> k, value |-> v]) :
                         d \in {f \in DictsOver(names, texts, n - 1) : Len(f) = n - 1},
                         k \in names, v \in texts} :
                  Cardinality(Keys(e)) = Len(e)}

\* tools built with Tool(..., validation_func=validate_analysis_params), the
\* required parameters declared in either order
ValidatedTools ==
    {Tool("run_analysis", "POST", "run_analysis", required,
          <<"parameters", "input_file_ids", "options">>, "validate_analysis_params") :
        required \in {<<"project_id", "analysis_type">>,
                      <<"analysis_type", "project_id">>,
                      <<"analysis_type">>,
                      <<>>}}

\* the parameters it is called with
CheckedParams ==
    DictsOver({"project_id", "analysis_type", "parameters", "file_id"},
              {<<"7">>, <<"statistical">>, <<"bogus">>}, MaxParams)

\* a Tool alone: no APIClient is constructed
InitValidate ==
    /\ intent_map = IntentMapSource
    /\ tools = _register_tools
    /\ retry_attempts = 0
    /\ provider = "openai"
    /\ conversation_history = <<>>
    /\ Constructed

\* is_valid, error_msg = tool.validate_params(params)
ValidateParams(tool, params) ==
    /\ pc = "start"
    /\ validated' = [tool |-> tool, params |-> params]
    /\ validation' = validate_params(tool, params)
    /\ pc' = "validated"
    /\ UNCHANGED <<intent_map, tools, retry_attempts, llm_response, intent_result,
                   call, plan, retry_count, sent, outcomes, response, tool_result,
                   mapped_intent, mapped_action, chains, clock,
                   llm_vars,
                   web_vars>>

NextValidate ==
    \E tool \in {_register_tools[i].value : i \in 1..Len(_register_tools)}
                \cup ValidatedTools,
       params \in CheckedParams :
        ValidateParams(tool, params)

SpecValidate == InitValidate /\ [][NextValidate]_vars

-----------------------------------------------------------------------------
(* LLMProcessor.process_input called alone *)

\* contexts of at most n of the turns process_message keeps
RECURSIVE ContextsUpTo(_)
ContextsUpTo(n) ==
    IF n = 0 THEN {<<>>}
    ELSE ContextsUpTo(n - 1)
         \cup {Append(c, t) : c \in {e \in ContextsUpTo(n - 1) : Len(e) = n - 1},
                              t \in {Message("user", <<"u">>),
                                     Message("assistant", <<"a">>)}}

Contexts == ContextsUpTo(MaxContext)

\* texts of the model of at most n tokens
RECURSIVE ContentsUpTo(_)
ContentsUpTo(n) ==
    IF n = 0 THEN {<<>>}
    ELSE ContentsUpTo(n - 1)
         \cup {Append(c, t) : c \in {e \in ContentsUpTo(n - 1) : Len(e) = n - 1},
                              t \in {"{", "}", "k:", "1", "w"}}

Contents == ContentsUpTo(MaxContentLen)

\* a response body of the provider's documented shape, carrying content
OpenAIBody(content) ==
    JObject(<<[key |-> "choices",
               value |-> JArray(<<JObject(<<[key |-> "message",
                                             value |-> JObject(<<[key |-> "content",
                                                                  value |-> content]>>)]>>)>>)]>>)
AnthropicBody(content) ==
    JObject(<<[key |-> "content",
               value |-> JArray(<<JObject(<<[key |-> "text", value |-> content]>>)>>)]>>)

\* what the provider can answer to the post of a processor of provider p:
\* decoded 2xx bodies of the provider's documented shape with a text as
\* content, bodies that lack the structure or carry null as content, and
\* bodies that do not decode
ResponsesTo(p) ==
    {[kind |-> "response", status_code |-> 200, decodes |-> TRUE, body |-> b] :
        b \in {IF p = "openai" THEN OpenAIBody(JString(c))
                ELSE AnthropicBody(JString(c)) : c \in Contents}
               \cup {OpenAIBody(JString(<<"{", "}">>)),
                     AnthropicBody(JString(<<"{", "}">>)),
                     OpenAIBody(JNull), AnthropicBody(JNull),
                     JObject(<<[key |-> "id", value |-> JNumber]>>),
                     JObject(<<[key |-> "choices", value |-> JArray(<<>>)]>>),
                     JObject(<<[key |-> "content", value |-> JArray(<<>>)]>>),
                     JArray(<<JNumber>>)}}
    \cup {[kind |-> "response", status_code |-> st, decodes |-> FALSE, body |-> JNull] :
             st \in {200, 401, 500}}
OpenAIResponses == ResponsesTo("openai")
AnthropicResponses == ResponsesTo("anthropic")
ProviderResponses(p) == IF p = "openai" THEN OpenAIResponses ELSE AnthropicResponses

\* an LLMProcessor alone: no APIClient is constructed
InitLLM ==
    /\ intent_map = IntentMapSource
    /\ tools = _register_tools
    /\ retry_attempts = 0
    /\ provider \in {"openai", "anthropic", "huggingface"}
    /\ conversation_history = <<>>
    /\ Constructed

\* a process_input that posts in the openai format whatever the provider
ProcessInput_posts_anyway(user_input, context) ==
    /\ pc = "start"
    /\ llm_call' = [user_input |-> user_input, context |-> context]
    /\ llm_sent' = Append(llm_sent, RequestData("openai", user_input, context))
    /\ pc' = "llm"
    /\ UNCHANGED <<intent_map, tools, retry_attempts, llm_response, intent_result,
                   call, plan, retry_count, sent, outcomes, response, tool_result,
                   mapped_intent, mapped_action, chains, clock,
                   valid_vars, provider, llm_reply,
                   llm_result, web_vars>>

\* process_input(user_input, context) up to the post to the provider
ProcessInput(user_input, context) ==
    /\ pc = "start"
    /\ llm_call' = [user_input |-> user_input, context |-> context]
    /\ IF provider \in {"openai", "anthropic"}
       THEN /\ llm_sent' = Append(llm_sent, RequestData(provider, user_input, context))
            /\ pc' = "llm"
            /\ UNCHANGED llm_result
       ELSE /\ llm_result' =
                  Returns(ErrorObject(<<"unsupported LLM provider: ", provider>>))
            /\ pc' = "llm_done"
            /\ UNCHANGED llm_sent
    /\ UNCHANGED <<intent_map, tools, retry_attempts, llm_response, intent_result,
                   call, plan, retry_count, sent, outcomes, response, tool_result,
                   mapped_intent, mapped_action, chains, clock,
                   valid_vars, provider, llm_reply,
                   web_vars>>

\* the provider has answered: the rest of the try block
ProviderAnswers(reply, json_error_is_request_exception) ==
    /\ pc = "llm"
    /\ llm_reply' = reply
    /\ llm_result' = call_api(provider, reply, json_error_is_request_exception)
    /\ pc' = "llm_done"
    /\ UNCHANGED <<intent_map, tools, retry_attempts, llm_response, intent_result,
                   call, plan, retry_count, sent, outcomes, response, tool_result,
                   mapped_intent, mapped_action, chains, clock,
                   valid_vars, provider, llm_call,
                   llm_sent, web_vars>>

NextLLM ==
    \/ \E user_input \in {<<"hello">>}, context \in Contexts :
          ProcessInput(user_input, context)
    \/ \E reply \in {[kind |-> "failure", reason |-> r] :
                         r \in {"connection refused", "timed out"}} :
          ProviderAnswers(reply, TRUE)
    \/ \E reply \in ProviderResponses(provider), b \in BOOLEAN :
          ProviderAnswers(reply, b)

SpecLLM == InitLLM /\ [][NextLLM]_vars

-----------------------------------------------------------------------------
(* web/app.py: process_message *)

\* intent_parser.parse_intent(request.message, context), process_input ending
\* in outcome.  A value that is no mapping is a JSON value: `"error" in` it
\* raises TypeError on null and on a number, and is False on a list of numbers
parse_intent_call(m, outcome) ==
    IF outcome.raised THEN outcome
    ELSE IF "kind" \in DOMAIN outcome.value
    THEN IF outcome.value.kind = "array"
         THEN Returns([success |-> FALSE,
                       error |-> <<"missing fields: ">> \o Join(<<"action", "parameters">>),
                       raw_response |-> outcome.value])
         ELSE Raises("TypeError")
    ELSE Returns(parse_intent(m, outcome.value))

\* tool_manager.execute_tool(action, parameters), parameters any JSON value:
\* validate_params runs outside the try block, params.items() inside it
execute_tool_call(tls, tool_name, parameters) ==
    LET tool == get_tool(tls, tool_name)
    IN  IF tool = None
        THEN [raised |-> FALSE, returns |-> TRUE,
              result |-> [success |-> FALSE,
                          error |-> <<"tool not found: ", tool_name>>]]
        ELSE IF parameters.kind = "object"
        THEN [raised |-> FALSE] @@ execute_tool(tls, tool_name, parameters.members)
        ELSE IF parameters.kind = "array"
        THEN LET missing == {i \in 1..Len(tool.required_params) :
                                \A j \in 1..Len(parameters.items) :
                                    parameters.items[j] #
                                       JString(<<tool.required_params[i]>>)}
             IN  IF missing # {}
                 THEN [raised |-> FALSE, returns |-> TRUE,
                       result |-> [success |-> FALSE,
                                   error |-> <<"missing required parameter: ",
                                               tool.required_params[
                                                   CHOOSE i \in missing :
                                                      \A j \in missing : i <= j]>>]]
                 ELSE [raised |-> FALSE, returns |-> TRUE,
                       result |-> [success |-> FALSE,
                                   error |-> <<"tool execution exception: ",
                                               "no attribute 'items'">>]]
        ELSE IF tool.required_params # <<>>
        THEN Raises("TypeError")
        ELSE [raised |-> FALSE, returns |-> TRUE,
              result |-> [success |-> FALSE,
                          error |-> <<"tool execution exception: ",
                                      "no attribute 'items'">>]]

\* generate_response_message(action, result_data), which calls
\* result_data.get for the actions listed; the text of the message is not
\* modelled beyond the action it reports
generate_response_message(action, result_data) ==
    IF /\ action \in {"get_user", "create_user", "list_projects", "get_project",
                      "create_project", "list_files", "upload_file", "run_analysis",
                      "get_analysis_result", "get_system_status"}
       /\ "kind" \in DOMAIN result_data
    THEN Raises("AttributeError")
    ELSE Returns(<<"done: ", action>>)

\* for question in questions: a list is iterated, as is the default []
Iterable(questions) ==
    IF DOMAIN questions = {} THEN TRUE ELSE questions.kind = "array"

\* a handler whose except clause lets the exception through
ErrorAnswer_propagates(e) == Raises(e)
\* the except clause of process_message
ErrorAnswer(e) ==
    [success |-> FALSE,
     message |-> <<"error while processing the request">>,
     error |-> <<e>>]

\* the clarification branch
ClarificationAnswer(intent) ==
    [success |-> TRUE,
     message |-> <<"I need more information: ">>
                 \o (LET questions == Get(intent, "clarification_questions", <<>>)
                     IN  IF DOMAIN questions = {} THEN <<>>
                         ELSE [i \in 1..Len(questions.items) |->
                                  questions.items[i].text[1]]),
     data |-> [requires_clarification |-> TRUE,
               confidence |-> Get(intent, "confidence", Num(0))]]

\* the branch of the other resolution failures
IntentFailureAnswer(intent) ==
    [success |-> FALSE,
     message |-> <<"cannot understand the request: ">>
                 \o Get(intent, "error", <<"unknown error">>),
     error |-> Get(intent, "error", <<"unknown error">>)]

\* the branch of a failed tool execution
ToolFailureAnswer(result) ==
    [success |-> FALSE,
     message |-> <<"the operation failed: ">> \o Get(result, "error", <<"unknown error">>),
     error |-> Get(result, "error", <<"unknown error">>),
     data |-> Get(result, "details", <<>>)]

\* the final return
SuccessAnswer(action, result_data, response_msg) ==
    [success |-> TRUE,
     message |-> response_msg,
     data |-> [action |-> action, result |-> result_data]]


\* process_message from the tool result on: what is answered, which
\* exception was caught, and the assistant turn appended to the context
Respond(action, result) ==
    IF ~result.success
    THEN [answer |-> ToolFailureAnswer(result), caught |-> None,
          turns |-> <<Message("assistant", ToolFailureAnswer(result).message)>>]
    ELSE LET response_msg == generate_response_message(action, result.result)
         IN  IF response_msg.raised
             THEN [answer |-> ErrorAnswer(response_msg.exception),
                   caught |-> [in |-> "generate_response_message",
                               exception |-> response_msg.exception],
                   turns |-> <<>>]
             ELSE [answer |-> SuccessAnswer(action, result.result, response_msg.value),
                   caught |-> None,
                   turns |-> <<Message("assistant", response_msg.value)>>]

\* context.append(turn), turn after turn, when the request names a
\* conversation: context is the list held by conversation_history
Appended(history, conversation_id, turns) ==
    IF conversation_id = "None" THEN history
    ELSE [i \in 1..Len(history) |->
             IF history[i].key = conversation_id
             THEN [key |-> history[i].key, value |-> history[i].value \o turns]
             ELSE history[i]]

\* what the model may have process_input return to the handler
WebPayloads ==
    {Payload({"error"}, <<>>, JNull, Num(0), JNull)}
    \cup
    {Payload(K, a, p, c, q) :
        K \in {{"action", "parameters", "confidence"},
               {"action", "parameters", "confidence", "clarification_questions"},
               {"parameters", "confidence"}},
        a \in {<<"u767b", "u5f55">>, <<"u9000", "u51fa">>,
                <<"u83b7", "u53d6", "u9879", "u76ee", "u4fe1", "u606f">>,
                <<"u6253", "u5f00", "u95e8">>},
        p \in {JObject(<<>>),
                JObject(<<[key |-> "project_id", value |-> <<"7">>]>>),
                JNull,
                JArray(<<JString(<<"project_id">>)>>)},
        c \in {Num(50), Num(90), NaN},
        q \in {JArray(<<JString(<<"which project?">>)>>), JNull}}

\* how process_input may end: a mapping, a JSON value that is no mapping, or
\* an exception that is no RequestException
LLMOutcomes ==
    {Returns(payload) : payload \in WebPayloads}
    \cup {Returns(JNull), Returns(JNumber), Returns(JArray(<<JNumber>>))}
    \cup {Raises("KeyError")}

\* responses of the target API: those of the chain, and a body that is a list
WebResponses ==
    Responses
    \cup {[status_code |-> 200, decodes |-> TRUE, body |-> JArray(<<JNumber>>),
           text |-> <<"[1]">>]}

\* request.conversation_id: None, a conversation that may exist, a new one
ConversationIds == {"None", "c1", "c2"}

InitWeb ==
    /\ intent_map = IntentMapSource
    /\ tools = _register_tools
    /\ provider = "openai"
    /\ conversation_history \in
          {<<>>} \cup {<<[key |-> "c1", value |-> context]>> : context \in Contexts}
    /\ Constructed

\* process_message up to the model call of parse_intent
ProcessMessage(message, conversation_id) ==
    /\ pc = "start"
    /\ request' = [message |-> message, conversation_id |-> conversation_id]
    /\ conversation_history' =
          IF conversation_id # "None" /\ ~HasKey(conversation_history, conversation_id)
          THEN Append(conversation_history, [key |-> conversation_id, value |-> <<>>])
          ELSE conversation_history
    /\ llm_call' = [user_input |-> message,
                    context |->
                       IF /\ conversation_id # "None"
                          /\ HasKey(conversation_history, conversation_id)
                       THEN Lookup(conversation_history, conversation_id)
                       ELSE <<>>]
    /\ pc' = "web_llm"
    /\ UNCHANGED <<intent_map, tools, retry_attempts, llm_response, intent_result,
                   call, plan, retry_count, sent, outcomes, response, tool_result,
                   mapped_intent, mapped_action, chains, clock,
                   valid_vars, provider, llm_sent,
                   llm_reply, llm_result, caught, answer>>

\* the handler ends: it answers, having caught exc or nothing, after
\* appending turns to the conversation
Answer(ans, exc, turns) ==
    /\ answer' = ans
    /\ caught' = exc
    /\ conversation_history' =
          Appended(conversation_history, request.conversation_id, turns)
    /\ pc' = "answered"

\* process_input has ended in outcome: parse_intent returns or raises, the
\* user turn is appended, and the handler answers or calls execute_tool
ModelAnswers(outcome) ==
    /\ pc = "web_llm"
    /\ llm_result' = outcome
    /\ llm_response' = IF outcome.raised THEN None ELSE outcome.value
    /\ LET parsed == parse_intent_call(intent_map, outcome)
           user_turn == Message("user", request.message)
       IN  IF parsed.raised
           THEN /\ Answer(ErrorAnswer(parsed.exception),
                          [in |-> "parse_intent", exception |-> parsed.exception],
                          <<>>)
                /\ UNCHANGED <<intent_result, call, plan, sent, tool_result>>
           ELSE /\ intent_result' = parsed.value
                /\ IF ~parsed.value.success
                   THEN /\ IF Get(parsed.value, "clarification_needed", FALSE)
                           THEN IF Iterable(Get(parsed.value, "clarification_questions",
                                                <<>>))
                                THEN Answer(ClarificationAnswer(parsed.value), None,
                                            <<user_turn,
                                              Message("assistant",
                                                      ClarificationAnswer(parsed.value).message)>>)
                                ELSE Answer(ErrorAnswer("TypeError"),
                                            [in |-> "process_message",
                                             exception |-> "TypeError"],
                                            <<user_turn>>)
                           ELSE Answer(IntentFailureAnswer(parsed.value), None,
                                       <<user_turn,
                                         Message("assistant",
                                                 IntentFailureAnswer(parsed.value).message)>>)
                        /\ UNCHANGED <<call, plan, sent, tool_result>>
                   ELSE LET r == execute_tool_call(tools, parsed.value.action,
                                                   parsed.value.parameters)
                        IN  /\ call' = [tool_name |-> parsed.value.action,
                                        params |-> parsed.value.parameters,
                                        origin |-> "web"]
                            /\ IF r.raised
                               THEN /\ Answer(ErrorAnswer(r.exception),
                                              [in |-> "execute_tool",
                                               exception |-> r.exception],
                                              <<user_turn>>)
                                    /\ UNCHANGED <<plan, sent, tool_result>>
                               ELSE IF r.returns
                               THEN /\ tool_result' = r.result
                                    /\ Answer(Respond(parsed.value.action, r.result).answer,
                                              Respond(parsed.value.action, r.result).caught,
                                              <<user_turn>>
                                              \o Respond(parsed.value.action, r.result).turns)
                                    /\ UNCHANGED <<plan, sent>>
                               ELSE /\ plan' = r.request
                                    /\ sent' = Append(sent, HttpRequest(r.request))
                                    /\ pc' = "web_http"
                                    /\ conversation_history' =
                                          Appended(conversation_history,
                                                   request.conversation_id, <<user_turn>>)
                                    /\ UNCHANGED <<tool_result, answer, caught>>
    /\ UNCHANGED <<intent_map, tools, retry_attempts, retry_count, outcomes, response,
                   mapped_intent, mapped_action, chains, clock,
                   valid_vars, provider, llm_call,
                   llm_sent, llm_reply, request>>

\* APIClient.request returns resp, execute_tool checks it and returns, and
\* the handler answers
WebReturn(outcome, resp) ==
    LET result == tool_response(call.tool_name, resp)
    IN  /\ outcomes' = Append(outcomes, outcome)
        /\ response' = resp
        /\ tool_result' = result
        /\ Answer(Respond(call.tool_name, result).answer,
                  Respond(call.tool_name, result).caught,
                  Respond(call.tool_name, result).turns)
        /\ UNCHANGED <<intent_map, tools, retry_attempts, llm_response, intent_result,
                       call, plan, retry_count, sent, mapped_intent, mapped_action, chains,
                       clock, valid_vars, llm_vars, request>>

\* except requests.exceptions.Timeout, inside the handler
WebTimeout ==
    /\ pc = "web_http"
    /\ IF ShouldRetry(retry_count, retry_attempts)
       THEN /\ outcomes' = Append(outcomes, "timeout")
            /\ retry_count' = retry_count + 1
            /\ sent' = Append(sent, HttpRequest(retry(plan)))
            /\ UNCHANGED <<intent_map, tools, retry_attempts, pc, llm_response,
                           intent_result, call, plan, response, tool_result,
                           mapped_intent, mapped_action, extension>>
       ELSE WebReturn("timeout", [error |-> <<"request timed out">>])

\* except requests.exceptions.RequestException, inside the handler
WebRequestException ==
    /\ pc = "web_http"
    /\ WebReturn("failure", [error |-> <<"connection failed">>])

\* a response arrives, inside the handler
WebHandleResponse(resp, json_error_is_request_exception) ==
    /\ pc = "web_http"
    /\ WebReturn("response", _handle_response(resp, json_error_is_request_exception))

NextWeb ==
    \/ \E message \in {<<"m">>}, conversation_id \in ConversationIds :
          ProcessMessage(message, conversation_id)
    \/ \E outcome \in LLMOutcomes : ModelAnswers(outcome)
    \/ WebTimeout
    \/ WebRequestException
    \/ \E resp \in WebResponses, b \in BOOLEAN : WebHandleResponse(resp, b)

SpecWeb == InitWeb /\ [][NextWeb]_vars

-----------------------------------------------------------------------------
(* Two call chains side by side, each with its own IntentParser,           *)
(* ToolManager and APIClient                                               *)

Chains == 1..2

\* the model answers of the chains: a request by path, one with a query, a
\* call refused before any request, a low confidence, an error payload
ConcPayloads ==
    {Payload({"action", "parameters", "confidence"},
             <<"u83b7", "u53d6", "u9879", "u76ee", "u4fe1", "u606f">>, p, Num(100), <<>>) :
        p \in {<<[key |-> "project_id", value |-> <<"7">>]>>,
               <<[key |-> "project_id", value |-> <<"7">>],
                 [key |-> "page", value |-> <<"7">>]>>}}
    \cup
    {Payload({"action", "parameters", "confidence"},
             <<"u767b", "u5f55">>, <<>>, c, <<>>) : c \in {Num(100), Num(69)}}
    \cup
    {Payload({"error"}, <<"u767b", "u5f55">>, <<>>, Num(100), <<>>)}

\* the API responses of the chains
ConcResponses ==
    {[status_code |-> 200, decodes |-> TRUE, body |-> [id |-> <<"7">>],
      text |-> <<"{...}">>],
     [status_code |-> 500, decodes |-> TRUE, body |-> [detail |-> <<"refused">>],
      text |-> <<"{...}">>],
     [status_code |-> 200, decodes |-> FALSE, body |-> None, text |-> <<"<html>">>]}

\* IntentParser(), ToolManager(APIClient()) for each chain: its objects, its
\* position, and what became of each of its session.request calls
InitConc ==
    /\ intent_map = IntentMapSource
    /\ tools = _register_tools
    /\ provider = "openai"
    /\ conversation_history = <<>>
    /\ ConstructedOne
    /\ chains = [c \in Chains |->
                    [intent_map |-> IntentMapSource,
                     tools |-> _register_tools,
                     retry_attempts |-> retry_attempts,
                     pc |-> "start",
                     llm_response |-> None,
                     intent_result |-> None,
                     plan |-> None,
                     retry_count |-> 0,
                     replies |-> <<>>,
                     tool_result |-> None,
                     overlapped |-> FALSE]]

\* chain c moves on to ch; it is noted when it does so while the other
\* chain is suspended in a network call of its own
Resume(c, ch) ==
    /\ chains' = [chains EXCEPT
                     ![c] = [ch EXCEPT !.overlapped =
                                @ \/ (/\ chains[c].pc \in {"llm", "http"}
                                      /\ chains[3 - c].pc \in {"llm", "http"})]]
    /\ UNCHANGED <<chain_vars, valid_vars, llm_vars, web_vars, clock>>

\* parse_intent calls process_input, which posts to the provider and waits
ChainCallsModel(c) ==
    /\ chains[c].pc = "start"
    /\ Resume(c, [chains[c] EXCEPT !.pc = "llm"])

\* process_input returns payload: parse_intent resolves it and, on success,
\* execute_tool runs up to its session.request
ChainModelAnswers(c, payload) ==
    LET ch == chains[c]
        intent == parse_intent(ch.intent_map, payload)
        r == execute_tool(ch.tools, intent.action, intent.parameters)
    IN  /\ ch.pc = "llm"
        /\ Resume(c,
              IF ~intent.success
              THEN [ch EXCEPT !.llm_response = payload, !.intent_result = intent,
                              !.pc = "done"]
              ELSE IF r.returns
              THEN [ch EXCEPT !.llm_response = payload, !.intent_result = intent,
                              !.tool_result = r.result, !.pc = "done"]
              ELSE [ch EXCEPT !.llm_response = payload, !.intent_result = intent,
                              !.plan = r.request, !.retry_count = 0, !.pc = "http"])

\* the retry counter the two chains would share were it kept in one place
ChainRetryCount_shared(c) == chains[c].retry_count + chains[(3 - c)].retry_count

\* the retry_count argument of the running APIClient.request of chain c
ChainRetryCount(c) == chains[c].retry_count

\* APIClient.request of chain c returns resp; execute_tool checks it and
\* returns
ChainReturns(c, reply, resp) ==
    LET ch == chains[c]
    IN  Resume(c, [ch EXCEPT !.replies = Append(@, reply),
                             !.tool_result = tool_response(ch.intent_result.action, resp),
                             !.pc = "done"])

\* except requests.exceptions.Timeout in chain c
ChainTimeout(c) ==
    LET ch == chains[c]
    IN  /\ ch.pc = "http"
        /\ IF ShouldRetry(ChainRetryCount(c), ch.retry_attempts)
           THEN Resume(c, [ch EXCEPT !.replies = Append(@, [kind |-> "timeout"]),
                                     !.retry_count = @ + 1,
                                     !.plan = retry(ch.plan)])
           ELSE ChainReturns(c, [kind |-> "timeout"], [error |-> <<"request timed out">>])

\* except requests.exceptions.RequestException in chain c
ChainRequestException(c) ==
    /\ chains[c].pc = "http"
    /\ ChainReturns(c, [kind |-> "failure"], [error |-> <<"connection failed">>])

\* a response arrives in chain c
ChainHandleResponse(c, resp, json_error_is_request_exception) ==
    /\ chains[c].pc = "http"
    /\ ChainReturns(c, [kind |-> "response", resp |-> resp,
                        b |-> json_error_is_request_exception],
                    _handle_response(resp, json_error_is_request_exception))

NextConc ==
    \E c \in Chains :
        \/ ChainCallsModel(c)
        \/ \E payload \in ConcPayloads : ChainModelAnswers(c, payload)
        \/ ChainTimeout(c)
        \/ ChainRequestException(c)
        \/ \E resp \in ConcResponses, b \in BOOLEAN : ChainHandleResponse(c, resp, b)

SpecConc == InitConc /\ [][NextConc]_vars

\* APIClient.request called alone, the successive session.request calls
\* ending as replies tell: the value returned and the replies left over, or
\* a call still waiting when the replies run out
RECURSIVE request_alone(_, _, _)
request_alone(replies, count, attempts) ==
    IF replies = <<>> THEN [waiting |-> TRUE]
    ELSE LET reply == Head(replies)
         IN  IF reply.kind = "timeout"
             THEN IF ShouldRetry(count, attempts)
                  THEN request_alone(Tail(replies), count + 1, attempts)
                  ELSE [waiting |-> FALSE, value |-> [error |-> <<"request timed out">>],
                        rest |-> Tail(replies)]
             ELSE IF reply.kind = "failure"
             THEN [waiting |-> FALSE, value |-> [error |-> <<"connection failed">>],
                   rest |-> Tail(replies)]
             ELSE [waiting |-> FALSE, value |-> _handle_response(reply.resp, reply.b),
                   rest |-> Tail(replies)]

\* parse_intent then execute_tool run alone on fresh objects, the model
\* answering payload and the API as replies tell
run_alone(attempts, payload, replies) ==
    LET intent == parse_intent(IntentMapSource, payload)
        r == execute_tool(_register_tools, intent.action, intent.parameters)
        answered == request_alone(replies, 0, attempts)
    IN  IF ~intent.success
        THEN [waiting |-> FALSE, intent_result |-> intent, tool_result |-> None,
              rest |-> replies]
        ELSE IF r.returns
        THEN [waiting |-> FALSE, intent_result |-> intent, tool_result |-> r.result,
              rest |-> replies]
        ELSE IF answered.waiting THEN [waiting |-> TRUE]
        ELSE [waiting |-> FALSE, intent_result |-> intent,
              tool_result |-> tool_response(intent.action, answered.value),
              rest |-> answered.rest]

-----------------------------------------------------------------------------
(* get_tool and execute_tool called one after the other on one ToolManager *)

\* a whole call of get_tool(tool_name)
RegistryGetTool(tool_name) ==
    /\ pc = "start"
    /\ call' = [tool_name |-> tool_name, params |-> <<>>, origin |-> "get_tool"]
    /\ tool_result' = get_tool(tools, tool_name)
    /\ UNCHANGED <<intent_map, tools, retry_attempts, pc, llm_response, intent_result,
                   plan, retry_count, sent, outcomes, response, mapped_intent,
                   mapped_action, extension>>

\* a whole call of execute_tool(tool_name, params): when it reaches the
\* client, n requests are issued, all but the last time out, and the last
\* ends in outcome (with resp when it is a response)
RegistryExecuteTool(tool_name, params, n, outcome, resp) ==
    LET r == execute_tool(tools, tool_name, params)
        answered == CASE outcome = "timeout" -> [error |-> <<"request timed out">>]
                      [] outcome = "failure" -> [error |-> <<"connection failed">>]
                      [] OTHER -> _handle_response(resp, TRUE)
    IN  /\ pc = "start"
        /\ outcome = "timeout" => n = retry_attempts + 1
        /\ call' = [tool_name |-> tool_name, params |-> params, origin |-> "direct"]
        /\ IF r.returns
           THEN /\ n = 1 /\ outcome = "failure"
                /\ tool_result' = r.result
                /\ plan' = None
                /\ sent' = <<>>
                /\ outcomes' = <<>>
                /\ response' = None
                /\ retry_count' = 0
           ELSE /\ tool_result' = tool_response(tool_name, answered)
                /\ plan' = r.request
                /\ sent' = [i \in 1..n |-> HttpRequest(r.request)]
                /\ outcomes' = [i \in 1..n |-> IF i < n THEN "timeout" ELSE outcome]
                /\ response' = answered
                /\ retry_count' = n - 1
        /\ UNCHANGED <<intent_map, tools, retry_attempts, pc, llm_response,
                       intent_result, mapped_intent, mapped_action, extension>>

NextRegistry ==
    \/ \E tool_name \in ToolNames : RegistryGetTool(tool_name)
    \/ \E tool_name \in {"get_project", "download_file", "unknown_tool"},
          params \in {<<>>,
                      <<[key |-> "project_id", value |-> <<"7">>]>>,
                      <<[key |-> "file_id", value |-> <<"7">>],
                        [key |-> "project_id", value |-> <<"7">>]>>},
          n \in 1..(retry_attempts + 1),
          outcome \in {"timeout", "failure", "response"},
          resp \in ConcResponses :
          RegistryExecuteTool(tool_name, params, n, outcome, resp)

SpecRegistry == Init /\ [][NextRegistry]_vars

-----------------------------------------------------------------------------
(* web/app.py: the conversation store.  A conversation id                  *)
(* conv_<YYYYmmddHHMMSS>_<n> is the record of its second and its number    *)

\* a second passes
Tick ==
    /\ clock < MaxClock
    /\ clock' = clock + 1
    /\ UNCHANGED <<chain_vars, valid_vars, llm_vars, web_vars, chains>>

\* create_conversation(): conversation_history[conversation_id] = [] keeps
\* the place of a key that is there and adds a key that is not
CreateConversation ==
    LET conversation_id == [second |-> clock, n |-> Len(conversation_history) + 1]
    IN  /\ Len(conversation_history) < MaxConversations
        /\ conversation_history' =
              IF HasKey(conversation_history, conversation_id)
              THEN [i \in 1..Len(conversation_history) |->
                       IF conversation_history[i].key = conversation_id
                       THEN [key |-> conversation_id, value |-> <<>>]
                       ELSE conversation_history[i]]
              ELSE Append(conversation_history,
                          [key |-> conversation_id, value |-> <<>>])
        /\ answer' = [success |-> TRUE,
                      message |-> <<"conversation created">>,
                      data |-> [conversation_id |-> conversation_id]]
        /\ UNCHANGED <<chain_vars, valid_vars, llm_vars, request, caught, chains, clock>>

\* delete_conversation(conversation_id) of a conversation that is there; of
\* another one it raises the 404 and changes nothing
DeleteConversation(conversation_id) ==
    /\ HasKey(conversation_history, conversation_id)
    /\ conversation_history' =
          SelectSeq(conversation_history, LAMBDA e : e.key # conversation_id)
    /\ answer' = [success |-> TRUE, message |-> <<"conversation deleted">>]
    /\ UNCHANGED <<chain_vars, valid_vars, llm_vars, request, caught, chains, clock>>

\* process_message on a stored conversation, on a path that returns: the
\* user record and the assistant record are appended
ConversationMessage(conversation_id) ==
    /\ HasKey(conversation_history, conversation_id)
    /\ Len(Lookup(conversation_history, conversation_id)) < MaxContext
    /\ conversation_history' =
          [i \in 1..Len(conversation_history) |->
              IF conversation_history[i].key = conversation_id
              THEN [key |-> conversation_id,
                    value |-> conversation_history[i].value
                              \o <<Message("user", <<"u">>),
                                   Message("assistant", <<"a">>)>>]
              ELSE conversation_history[i]]
    /\ UNCHANGED <<chain_vars, valid_vars, llm_vars, request, caught, answer, chains,
                   clock>>

NextConversations ==
    \/ Tick
    \/ CreateConversation
    \/ \E conversation_id \in Keys(conversation_history) :
          DeleteConversation(conversation_id)
    \/ \E conversation_id \in Keys(conversation_history) :
          ConversationMessage(conversation_id)

SpecConversations == Init /\ [][NextConversations]_vars

-----------------------------------------------------------------------------
(* Properties *)

\* parse_intent has returned for the payload llm_response
Parsed == intent_result # None

\* the payload passed the first two checks of parse_intent
WellFormed ==
    /\ "error" \notin DOMAIN llm_response
    /\ "action" \in DOMAIN llm_response
    /\ "parameters" \in DOMAIN llm_response

\* the confidence parse_intent reads: 0.0 when the key is absent
ReadConfidence ==
    IF "confidence" \in DOMAIN llm_response
    THEN llm_response["confidence"] ELSE [nan |-> FALSE, pct |-> 0]

Low(c) == ~c.nan /\ c.pct < 70
High(c) == ~c.nan /\ c.pct >= 70

\* entry i of table m accepts the text: equal, contained in it, or containing it
Accepts(m, i, text) ==
    \/ m[i].key = text
    \/ IsSubstring(m[i].key, text)
    \/ IsSubstring(text, m[i].key)

Mappable(m, text) == \E i \in 1..Len(m) : Accepts(m, i, text)

(* C1: for a payload without `error` and with `action` and `parameters`:   *)
(* confidence (0.0 when absent) < 0.7 gives success=false with             *)
(* clarification_needed=true and the payload's clarification_questions     *)
(* (empty when absent); confidence >= 0.7 with a mappable action gives     *)
(* success=true.                                                           *)
C1_ConfidenceGate ==
    (Parsed /\ WellFormed) =>
        /\ Low(ReadConfidence) =>
              /\ intent_result.success = FALSE
              /\ "clarification_needed" \in DOMAIN intent_result
              /\ intent_result.clarification_needed = TRUE
              /\ intent_result.clarification_questions =
                    (IF "clarification_questions" \in DOMAIN llm_response
                     THEN llm_response["clarification_questions"] ELSE <<>>)
        /\ (High(ReadConfidence) /\ Mappable(intent_map, llm_response["action"])) =>
              intent_result.success = TRUE

\* a payload without confidence that carries a question is answered with it
C1_Witness ==
    /\ Parsed /\ WellFormed
    /\ "confidence" \notin DOMAIN llm_response
    /\ "clarification_questions" \in DOMAIN llm_response
    /\ "clarification_needed" \in DOMAIN intent_result
    /\ intent_result.clarification_questions = <<"which project?">>

(* C2: whenever parse_intent returns success=true, the returned action is  *)
(* a key of the tool registry whose endpoint_action is a key of            *)
(* API_ENDPOINTS and the returned confidence is >= 0.7; execute_tool on    *)
(* such a resolution never answers 'tool not found'.                       *)
C2_SuccessIsRegistered ==
    (Parsed /\ intent_result.success) =>
        /\ HasKey(tools, intent_result.action)
        /\ HasKey(API_ENDPOINTS, Lookup(tools, intent_result.action).endpoint_action)
        /\ High(intent_result.confidence)
        /\ (tool_result # None /\ ~tool_result.success) =>
              tool_result.error # <<"tool not found: ", intent_result.action>>

AllTimedOut == \A i \in 1..Len(outcomes) : outcomes[i] = "timeout"

TimedOutError == [error |-> <<"request timed out">>]

(* C3: with retry_attempts = N >= 0 and every attempt timing out, one call *)
(* of APIClient.request issues exactly N+1 HTTP attempts and then returns  *)
(* the timeout error; there is never an (N+2)-th attempt, and the retry    *)
(* counter moves towards N with every attempt, so the call ends.           *)
C3_RetryBound ==
    /\ Len(sent) <= retry_attempts + 1
    /\ pc = "http" => (Len(sent) = retry_count + 1 /\ retry_count <= retry_attempts)
    /\ (AllTimedOut /\ Len(outcomes) = retry_attempts + 1) =>
          /\ pc = "done"
          /\ Len(sent) = retry_attempts + 1
          /\ response = TimedOutError
    /\ (response # None /\ response = TimedOutError) =>
          (AllTimedOut /\ Len(outcomes) = retry_attempts + 1)

\* a client with retries configured gave up after all its attempts timed out
C3_Witness ==
    /\ retry_attempts >= 1
    /\ pc = "done"
    /\ AllTimedOut
    /\ Len(sent) = retry_attempts + 1
    /\ response # None /\ response = TimedOutError

(* C4: the first attempt whose outcome is not a client-side timeout (a     *)
(* transport failure, a non-2xx response, a 2xx response) is the last      *)
(* attempt: the call returns on it and no request is issued after it.      *)
C4_NoRetryButOnTimeout ==
    /\ [](\A i \in 1..Len(outcomes) :
            outcomes[i] # "timeout" =>
                /\ i = Len(outcomes)
                /\ Len(sent) = i
                /\ pc = "done"
                /\ response # None
                /\ tool_result # None)
    /\ [][(\E i \in 1..Len(outcomes) : outcomes[i] # "timeout") => sent' = sent]_vars

\* a failure after one timed-out attempt ended the call at two requests
C4_Witness ==
    /\ retry_attempts >= 2
    /\ outcomes = <<"timeout", "failure">>
    /\ Len(sent) = 2
    /\ pc = "done"
    /\ response # None /\ response = [error |-> <<"connection failed">>]

\* the action text huo qu xiang mu DE xin xi of the scenario
TextWithDe == <<"u83b7", "u53d6", "u9879", "u76ee", "u7684", "u4fe1", "u606f">>

\* the exact key huo qu xiang mu xin xi
KeyGetProject == <<"u83b7", "u53d6", "u9879", "u76ee", "u4fe1", "u606f">>

\* qing + the exact key
TextWithQing == <<"u8bf7", "u83b7", "u53d6", "u9879", "u76ee", "u4fe1", "u606f">>

\* parse_intent has answered a payload that carries this action at a
\* confidence of 0.7 or more
Resolving(text) ==
    /\ Parsed /\ WellFormed
    /\ llm_response["action"] = text
    /\ High(ReadConfidence)

(* C5, as claimed: the action text with DE inserted, arriving with         *)
(* confidence >= 0.7, is resolved by the fuzzy fallback to get_project,    *)
(* the canonical id of the exact key.                                      *)
C5_VariantResolved ==
    Resolving(TextWithDe) =>
        (intent_result.success /\ intent_result.action = "get_project")

(* C5, amended: the text with DE inserted neither contains a table key nor *)
(* is contained in one, so parse_intent fails on it with 'unsupported      *)
(* operation: <text>'; a variant that keeps the exact key contiguous       *)
(* (qing + key) is resolved by the fuzzy fallback to get_project, as the   *)
(* exact key is.                                                           *)
C5_VariantUnsupported ==
    /\ Resolving(TextWithDe) =>
          /\ intent_result.success = FALSE
          /\ intent_result.error = <<"unsupported operation: ">> \o TextWithDe
          /\ "clarification_needed" \notin DOMAIN intent_result
    /\ Resolving(TextWithQing) =>
          (intent_result.success /\ intent_result.action = "get_project")
    /\ Resolving(KeyGetProject) =>
          (intent_result.success /\ intent_result.action = "get_project")

\* the variant with DE arrived at full confidence and was refused
C5_Witness ==
    /\ Resolving(TextWithDe)
    /\ llm_response["confidence"] = [nan |-> FALSE, pct |-> 100]
    /\ ~intent_result.success

\* _map_to_api_action has returned for mapped_intent
Mapped == pc = "mapped"

\* the entry of intent_map whose key is the text
ExactEntry(text) == CHOOSE i \in 1..Len(intent_map) : intent_map[i].key = text

(* C6: when the action equals a table key, _map_to_api_action returns that *)
(* key's value, even when an earlier entry's key is a substring of the     *)
(* action or contains it.                                                  *)
C6_ExactMatchFirst ==
    (Mapped /\ \E i \in 1..Len(intent_map) : intent_map[i].key = mapped_intent) =>
        mapped_action = intent_map[ExactEntry(mapped_intent)].value

\* an exact key was mapped to its own value although an earlier entry, of
\* another value, accepts the same text
C6_Witness ==
    /\ Mapped
    /\ \E i \in 1..Len(intent_map) :
          /\ intent_map[i].key = mapped_intent
          /\ mapped_action = intent_map[i].value
          /\ \E j \in 1..(i - 1) :
                /\ Accepts(intent_map, j, mapped_intent)
                /\ intent_map[j].value # intent_map[i].value

\* i is the first entry of intent_map that accepts the text
FirstAccepting(i, text) ==
    /\ Accepts(intent_map, i, text)
    /\ \A j \in 1..(i - 1) : ~Accepts(intent_map, j, text)

(* C7: for an action that is no exact key, _map_to_api_action returns the  *)
(* value of the first entry, in insertion order, whose key is a substring  *)
(* of the action or contains it, and returns no mapping exactly when no    *)
(* entry does; parse_intent then fails with 'unsupported operation:        *)
(* <action>'.                                                              *)
C7_FirstFuzzyMatch ==
    /\ (Mapped /\ ~\E i \in 1..Len(intent_map) : intent_map[i].key = mapped_intent) =>
          /\ \A i \in 1..Len(intent_map) :
                FirstAccepting(i, mapped_intent) => mapped_action = intent_map[i].value
          /\ mapped_action = "None" <=> ~Mappable(intent_map, mapped_intent)
    /\ (/\ Parsed /\ WellFormed /\ ~Low(ReadConfidence)
        /\ ~\E i \in 1..Len(intent_map) : intent_map[i].key = llm_response["action"]) =>
          IF Mappable(intent_map, llm_response["action"])
          THEN /\ intent_result.success
               /\ \A i \in 1..Len(intent_map) :
                     FirstAccepting(i, llm_response["action"]) =>
                         intent_result.action = intent_map[i].value
          ELSE /\ ~intent_result.success
               /\ intent_result.error =
                     <<"unsupported operation: ">> \o llm_response["action"]

\* a text that is no key was mapped to the first of two accepting entries
C7_Witness ==
    /\ Mapped
    /\ ~\E i \in 1..Len(intent_map) : intent_map[i].key = mapped_intent
    /\ \E i, j \in 1..Len(intent_map) :
          /\ i < j
          /\ FirstAccepting(i, mapped_intent)
          /\ Accepts(intent_map, j, mapped_intent)
          /\ intent_map[i].value # intent_map[j].value
          /\ mapped_action = intent_map[i].value

\* the names, among action and parameters, the payload lacks
Missing ==
    SelectSeq(<<"action", "parameters">>, LAMBDA f : f \notin DOMAIN llm_response)

(* C8: parse_intent checks in a fixed order and returns at the first check *)
(* that fails: (1) an `error` key: that error is propagated; (2) `action`  *)
(* or `parameters` missing: the missing-fields error naming them, without  *)
(* clarification_needed; (3) confidence < 0.7: clarification_needed=true   *)
(* and no mapping attempted, also for an unmappable action; (4) an         *)
(* unmappable action: 'unsupported operation', without clarification.      *)
C8_CheckOrder ==
    Parsed =>
        IF "error" \in DOMAIN llm_response
        THEN /\ ~intent_result.success
             /\ intent_result.error = llm_response["error"]
             /\ "clarification_needed" \notin DOMAIN intent_result
        ELSE IF Missing # <<>>
        THEN /\ ~intent_result.success
             /\ intent_result.error[1] = "missing fields: "
             /\ \A i \in 1..Len(Missing) :
                   \E j \in 2..Len(intent_result.error) : intent_result.error[j] = Missing[i]
             /\ "clarification_needed" \notin DOMAIN intent_result
        ELSE IF Low(ReadConfidence)
        THEN /\ ~intent_result.success
             /\ "clarification_needed" \in DOMAIN intent_result
             /\ intent_result.clarification_needed = TRUE
             /\ intent_result.error = <<"low confidence">>
             /\ "action" \notin DOMAIN intent_result
        ELSE ~Mappable(intent_map, llm_response["action"]) =>
                /\ ~intent_result.success
                /\ intent_result.error[1] = "unsupported operation: "
                /\ "clarification_needed" \notin DOMAIN intent_result

\* an unmappable action at low confidence was answered with the request for
\* clarification, not with 'unsupported operation'
C8_Witness ==
    /\ Parsed /\ WellFormed
    /\ Low(ReadConfidence)
    /\ ~Mappable(intent_map, llm_response["action"])
    /\ "clarification_needed" \in DOMAIN intent_result
    /\ intent_result.error = <<"low confidence">>

\* execute_tool was called, and has handed a request to the APIClient
Called == call # None
Requested == Called /\ plan # None

\* the tool of the running call, its path template, and the supplied
\* parameters that fill the template
CalledTool == Lookup(tools, call.tool_name)
Template == Lookup(API_ENDPOINTS, CalledTool.endpoint_action)
PathKeys ==
    {k \in Keys(call.params) :
        /\ \E i \in 1..Len(CalledTool.required_params) : CalledTool.required_params[i] = k
        /\ \E i \in 1..Len(Template) : Template[i] = "{" \o k \o "}"}

\* the template with the text of each path parameter in the place of its token
RECURSIVE Substituted(_)
Substituted(template) ==
    IF template = <<>> THEN <<>>
    ELSE (IF \E k \in PathKeys : Head(template) = "{" \o k \o "}"
          THEN Lookup(call.params,
                      CHOOSE k \in PathKeys : Head(template) = "{" \o k \o "}")
          ELSE <<Head(template)>>)
         \o Substituted(Tail(template))

\* query map and body of an issued request
QueryOf(req) == req.params.dict
BodyOf(req) == IF req.json = None THEN <<>> ELSE req.json.dict

\* the supplied parameters that do not fill the path, in their order
NonPath == SelectSeq(call.params, LAMBDA e : e.key \notin PathKeys)

(* C9: for a registered operation and parameters that pass validation,     *)
(* each required parameter whose {name} token occurs in the path template  *)
(* is substituted into the URL and is in neither the query map nor the     *)
(* body of the request; a GET with only path parameters is sent with an    *)
(* empty query map.                                                        *)
C9_PathParamsConsumed ==
    Requested =>
        /\ plan.endpoint = Substituted(Template)
        /\ \A i \in 1..Len(sent) :
              /\ sent[i].url = <<base_url>> \o Substituted(Template)
              /\ \A k \in PathKeys :
                    k \notin Keys(QueryOf(sent[i])) /\ k \notin Keys(BodyOf(sent[i]))
              /\ (CalledTool.method = "GET" /\ Keys(call.params) \subseteq PathKeys) =>
                    QueryOf(sent[i]) = <<>>

(* C10: execute_tool routes the non-path parameters by method: GET and     *)
(* DELETE send them all in the query map, without body; POST, PUT and      *)
(* PATCH send them all in the body, with an empty query map; a tool of any *)
(* other method is answered 'unsupported HTTP method' and no request is    *)
(* issued.                                                                 *)
C10_RoutingByMethod ==
    /\ Requested =>
          /\ CalledTool.method \in {"GET", "DELETE", "POST", "PUT", "PATCH"}
          /\ \A i \in 1..Len(sent) :
                IF CalledTool.method \in {"GET", "DELETE"}
                THEN QueryOf(sent[i]) = NonPath /\ sent[i].json = None
                ELSE sent[i].json = [dict |-> NonPath] /\ QueryOf(sent[i]) = <<>>
    /\ (/\ Called
        /\ \E i \in 1..Len(tools) : tools[i].key = call.tool_name
        /\ \A i \in 1..Len(CalledTool.required_params) :
              CalledTool.required_params[i] \in Keys(call.params)
        /\ CalledTool.method \notin {"GET", "DELETE", "POST", "PUT", "PATCH"}) =>
          /\ pc = "done"
          /\ tool_result = [success |-> FALSE,
                            error |-> <<"unsupported HTTP method: ", CalledTool.method>>]
          /\ sent = <<>>
          /\ plan = None

\* a tool of method HEAD, called with its required parameter, was refused
\* before any request went out
C10_Witness ==
    /\ Called
    /\ \E i \in 1..Len(tools) : tools[i].key = call.tool_name
    /\ CalledTool.method = "HEAD"
    /\ "project_id" \in Keys(call.params)
    /\ pc = "done"
    /\ tool_result # None /\ ~tool_result.success
    /\ sent = <<>>

\* validate_params has returned for validated.tool and validated.params
Validated == validated # None

\* the declared positions of the required parameters the mapping lacks
Absent ==
    {i \in 1..Len(validated.tool.required_params) :
        \A j \in 1..Len(validated.params) :
            validated.params[j].key # validated.tool.required_params[i]}

\* what the declared validator answers on the supplied mapping
ValidatorAnswer ==
    IF validated.tool.validation_func = "validate_analysis_params"
    THEN validate_analysis_params(validated.params)
    ELSE [is_valid |-> TRUE, error_msg |-> <<>>]

(* C11: validate_params checks the required parameters in their declared   *)
(* order and fails at the first one absent from the mapping with 'missing  *)
(* required parameter: <name>', whatever the validator would say; when     *)
(* none is absent the validator's verdict is the result: its own message,  *)
(* unchanged, when it fails, and valid otherwise.                          *)
C11_ValidateOrder ==
    Validated =>
        IF Absent # {}
        THEN /\ ~validation.is_valid
             /\ \E i \in Absent :
                   /\ \A j \in Absent : i <= j
                   /\ validation.error_msg =
                         <<"missing required parameter: ",
                           validated.tool.required_params[i]>>
        ELSE IF ~ValidatorAnswer.is_valid
        THEN /\ ~validation.is_valid
             /\ validation.error_msg = ValidatorAnswer.error_msg
        ELSE validation.is_valid

\* the second declared parameter is absent and the validator rejects the
\* mapping: the answer names the absent parameter
C11_Witness ==
    /\ Validated
    /\ validated.tool.required_params = <<"analysis_type", "project_id">>
    /\ Absent = {2}
    /\ ~ValidatorAnswer.is_valid
    /\ validation.error_msg = <<"missing required parameter: ", "project_id">>

\* process_input has ended, by a return or by an exception
LLMDone == pc = "llm_done"

\* the provider answered 2xx with a body that decodes
Answered2xx ==
    /\ llm_reply # None
    /\ llm_reply.kind = "response"
    /\ llm_reply.status_code >= 200 /\ llm_reply.status_code < 300
    /\ llm_reply.decodes

\* the body carries a text where the provider's format puts the model's text
HasText ==
    /\ Answered2xx
    /\ ~GetPath(llm_reply.body, ContentPath(provider)).raised
    /\ GetPath(llm_reply.body, ContentPath(provider)).value.kind = "string"

\* that text
ProviderText == GetPath(llm_reply.body, ContentPath(provider)).value.text

\* positions of the first "{" and of the last "}" of a text, 0 when there is none
FirstOpen(c) ==
    IF \E i \in 1..Len(c) : c[i] = "{"
    THEN CHOOSE i \in 1..Len(c) : c[i] = "{" /\ \A j \in 1..(i - 1) : c[j] # "{"
    ELSE 0
LastClose(c) ==
    IF \E i \in 1..Len(c) : c[i] = "}"
    THEN CHOOSE i \in 1..Len(c) : c[i] = "}" /\ \A j \in (i + 1)..Len(c) : c[j] # "}"
    ELSE 0

\* the text from the first "{" to the last "}", empty when there is none
Braced(c) ==
    IF FirstOpen(c) > 0 /\ LastClose(c) > FirstOpen(c)
    THEN SubSeq(c, FirstOpen(c), LastClose(c))
    ELSE <<>>

\* the text yields a value, directly or between its braces
Extractable(c) == json_loads(c).ok \/ json_loads(Braced(c)).ok

\* a case in which process_input has no model output to return
FailureCase == ~(HasText /\ Extractable(ProviderText))

(* C12: process_input never raises to its caller: for every provider       *)
(* outcome (connection failure, timeout, non-2xx status, a 2xx body that   *)
(* is not JSON or lacks the choices/content structure, a text that cannot  *)
(* be decoded) it returns a mapping, which carries an `error` key in every *)
(* failure case.                                                           *)
C12_NeverRaises ==
    LLMDone =>
        /\ ~llm_result.raised
        /\ llm_result.value.kind = "object"
        /\ FailureCase => HasKey(llm_result.value.members, "error")

(* C13: the extraction is the three-tier fallback: a text that decodes     *)
(* gives the decoded value; otherwise, if the text from the first "{" to   *)
(* the last "}" decodes, that value (an object wrapped in brace-free       *)
(* prose is extracted); otherwise an error mapping with a parse-failure    *)
(* message and raw_response equal to the full text.                        *)
C13_ThreeTier ==
    (LLMDone /\ HasText) =>
        /\ ~llm_result.raised
        /\ IF json_loads(ProviderText).ok
           THEN llm_result.value = json_loads(ProviderText).value
           ELSE IF json_loads(Braced(ProviderText)).ok
           THEN llm_result.value = json_loads(Braced(ProviderText)).value
           ELSE /\ llm_result.value.kind = "object"
                /\ Keys(llm_result.value.members) = {"error", "raw_response"}
                /\ Lookup(llm_result.value.members, "error") \in
                      {JString(<<"cannot parse the model response">>),
                       JString(<<"no JSON found in the response">>)}
                /\ Lookup(llm_result.value.members, "raw_response") =
                      JString(ProviderText)

\* an empty object wrapped in prose on both sides was extracted
C13_Witness ==
    /\ LLMDone /\ HasText
    /\ ProviderText = <<"w", "{", "}", "w">>
    /\ ~llm_result.raised
    /\ llm_result.value = [kind |-> "object", members |-> <<>>]

\* the message list of a posted request, the system instruction of the
\* request put first when the request carries it apart
MessageList(data) ==
    IF "system" \in DOMAIN data
    THEN <<[role |-> "system", content |-> data.system]>> \o data.messages
    ELSE data.messages

(* C16: the message list sent to the provider is ordered: the fixed system *)
(* instruction first, then the prior context turns in their original       *)
(* order, then the new user turn last.                                     *)
C16_SystemFirst ==
    \A i \in 1..Len(llm_sent) :
        MessageList(llm_sent[i]) =
            <<[role |-> "system", content |-> <<"system instruction">>]>>
            \o llm_call.context
            \o <<[role |-> "user", content |-> llm_call.user_input]>>

\* a status outside 200..299
NonSuccess(status_code) == status_code < 200 \/ status_code >= 300

(* C15: when a response is received, _handle_response returns: for a       *)
(* non-2xx status, {error: status description, details: the parsed body,   *)
(* or {status_code, text} when the body does not parse}; for a 2xx status  *)
(* whose body decodes, the decoded body; for a 2xx status whose body does  *)
(* not decode, an error that carries the raw body under `text`.            *)
C15_ResponseShapes ==
    [][\A resp \in Responses, b \in BOOLEAN :
          HandleResponse(resp, b) =>
              IF NonSuccess(resp.status_code)
              THEN /\ DOMAIN response' = {"error", "details"}
                   /\ response'.error = <<"HTTP error ", ToString(resp.status_code)>>
                   /\ response'.details =
                         (IF resp.decodes THEN resp.body
                          ELSE [status_code |-> resp.status_code, text |-> resp.text])
              ELSE IF resp.decodes
              THEN response' = resp.body
              ELSE /\ DOMAIN response' = {"error", "text"}
                   /\ response'.text = resp.text]_vars

(* C19: every retry attempt made by APIClient.request after a timeout      *)
(* re-issues the method, URL, query parameters, body and headers of the    *)
(* first attempt; between attempts only the retry counter changes (and the *)
(* record of what was sent and of what became of it).                      *)
C19_RetriesIdentical ==
    /\ [](\A i \in 1..Len(sent) : sent[i] = sent[1])
    /\ [][(sent # <<>> /\ sent' # sent) =>
             /\ sent' = Append(sent, sent[Len(sent)])
             /\ retry_count' = retry_count + 1
             /\ outcomes' = Append(outcomes, "timeout")
             /\ UNCHANGED <<intent_map, tools, retry_attempts, pc, llm_response,
                            intent_result, call, plan, response, tool_result>>]_vars

\* a request with a body was sent three times over
C19_Witness ==
    /\ Len(sent) = 3
    /\ outcomes = <<"timeout", "timeout">>
    /\ sent[1].json # None /\ sent[1].json.dict # <<>>
    /\ sent[3] = sent[1]
    /\ retry_count = 2

\* the handler has answered a request
Answered == pc = "answered" /\ request # None

(* C14: for every tool name and every parameters value the resolver can    *)
(* pass on (a value that is not a mapping included), execute_tool returns  *)
(* a mapping with a boolean success and, on failure, an error: it never    *)
(* raises past its boundary.                                               *)
C14_ExecuteToolReturns ==
    (Answered /\ call # None) =>
        /\ caught = None \/ caught.in # "execute_tool"
        /\ tool_result # None =>
              /\ tool_result.success \in BOOLEAN
              /\ ~tool_result.success => "error" \in DOMAIN tool_result

(* C17: whatever exception is raised inside parse_intent, execute_tool or  *)
(* generate_response_message, process_message does not propagate it and    *)
(* returns {success: false, message: generic error text, error:            *)
(* description}.                                                           *)
C17_ProcessMessageWraps ==
    Answered =>
        /\ "success" \in DOMAIN answer
        /\ caught # None =>
              answer = [success |-> FALSE,
                        message |-> <<"error while processing the request">>,
                        error |-> <<caught.exception>>]

\* the API answered 200 with a body that is no mapping, and the message
\* generator raised on it
C17_Witness ==
    /\ Answered
    /\ caught # None
    /\ caught.in = "generate_response_message"
    /\ tool_result # None /\ tool_result.success
    /\ ~answer.success

\* the answer asks the caller to clarify
IsClarification(ans) ==
    ans.success /\ "requires_clarification" \in DOMAIN ans.data
                /\ ans.data.requires_clarification

\* the resolution failed and asks for clarification
ClarificationNeeded(intent) ==
    ~intent.success /\ Get(intent, "clarification_needed", FALSE)

(* C18: process_message answers success=true with                          *)
(* data.requires_clarification=true exactly when the intent resolution     *)
(* failed with clarification_needed=true, and answers success=false with   *)
(* an error for every other intent-resolution failure and for every        *)
(* tool-execution failure.                                                 *)
C18_Clarification ==
    (Answered /\ intent_result # None) =>
        /\ IsClarification(answer) <=> ClarificationNeeded(intent_result)
        /\ (~intent_result.success /\ ~ClarificationNeeded(intent_result)) =>
              ~answer.success /\ "error" \in DOMAIN answer
        /\ (tool_result # None /\ ~tool_result.success) =>
              ~answer.success /\ "error" \in DOMAIN answer

\* chain c has returned what it returns when run alone
AsAlone(c) ==
    LET ch == chains[c]
        alone == run_alone(ch.retry_attempts, ch.llm_response, ch.replies)
    IN  /\ ~alone.waiting
        /\ alone.rest = <<>>
        /\ ch.intent_result = alone.intent_result
        /\ ch.tool_result = alone.tool_result

(* C20: two call chains (parse_intent then execute_tool, each with its own *)
(* IntentParser, ToolManager and APIClient) interleaved in any way at      *)
(* their network-call suspension points each return the result they would  *)
(* return when run alone with the same model and API responses; neither    *)
(* chain writes the action-name table, the tool registry or the transport  *)
(* configuration.                                                          *)
C20_ChainsIndependent ==
    /\ [](\A c \in Chains : chains[c].pc = "done" => AsAlone(c))
    /\ [](\A c \in Chains : /\ chains[c].intent_map = IntentMapSource
                            /\ chains[c].tools = _register_tools)
    /\ [][\A c \in Chains : chains'[c].retry_attempts = chains[c].retry_attempts]_vars

\* both chains have returned after a retry each, every one of them having
\* moved on while the other was suspended in a network call
C20_Witness ==
    /\ \A c \in Chains : /\ chains[c].pc = "done"
                         /\ chains[c].overlapped
                         /\ chains[c].retry_count = 1
                         /\ chains[c].tool_result # None
    /\ chains[1].tool_result.success
    /\ ~chains[2].tool_result.success
    /\ chains[1].retry_attempts = chains[1].retry_count

\* process_input was called on a processor of an unsupported provider
Unsupported == llm_call # None /\ provider \notin {"openai", "anthropic"}

NoResponse ==
    /\ pc = "done" /\ call # None /\ tool_result # None
    /\ outcomes = <<>> \/ outcomes[Len(outcomes)] \in {"timeout", "failure"}

(* C26: execute_tool returns success=false exactly when the tool is        *)
(* unknown, validation fails, or the transport failed (timeout after       *)
(* retries, connection failure, non-2xx status, undecodable body); every   *)
(* 2xx response whose body decodes to a JSON object is reported as         *)
(* success=true with that body as result, whatever keys the body contains. *)
C26_SuccessExactly ==
    /\ [](NoResponse => ~tool_result.success)
    /\ [][\A resp \in Responses, b \in BOOLEAN :
             HandleResponse(resp, b) =>
                IF ~NonSuccess(resp.status_code) /\ resp.decodes
                THEN /\ tool_result'.success
                     /\ tool_result'.result = resp.body
                ELSE ~tool_result'.success]_vars

\* the payload passed the first checks, with a confidence of 0.7 or more,
\* and its action is the empty string
EmptyAction ==
    /\ Parsed /\ WellFormed
    /\ High(ReadConfidence)
    /\ llm_response["action"] = <<>>

(* C27: a payload with confidence >= 0.7 whose action is the empty string  *)
(* is never resolved to an operation: parse_intent returns success=false   *)
(* with the 'unsupported operation' error for it.                          *)
C27_EmptyActionUnsupported ==
    EmptyAction =>
        /\ ~intent_result.success
        /\ intent_result.error = <<"unsupported operation: ">>
        /\ call = None

\* the {name} tokens of a text
Placeholders(text) ==
    {text[i] : i \in {j \in 1..Len(text) :
                         text[j] \in {Placeholder(k) : k \in PathParamNames}}}

\* the {name} tokens that occur in the values the caller supplied
SuppliedPlaceholders ==
    UNION {Placeholders(call.params[j].value) : j \in 1..Len(call.params)}

(* C28: for every registered tool and every parameter mapping that passes  *)
(* validation, the endpoint handed to the transport client contains no     *)
(* unsubstituted {name} placeholder: every placeholder of the tool's path  *)
(* template names one of the tool's required parameters.                   *)
C28_NoPlaceholderLeft ==
    /\ \A t \in 1..Len(tools) :
          Placeholders(Lookup(API_ENDPOINTS, tools[t].value.endpoint_action))
             \subseteq {Placeholder(k) : k \in Required(tools[t].value)}
    /\ Requested =>
          /\ Placeholders(plan.endpoint) \subseteq SuppliedPlaceholders
          /\ \A i \in 1..Len(sent) :
                Placeholders(sent[i].url) \subseteq SuppliedPlaceholders

\* a request was handed over for a template of two placeholders, both
\* filled with the caller's values
C28_Witness ==
    /\ Requested
    /\ Cardinality(Placeholders(Template)) = 2
    /\ Placeholders(plan.endpoint) = {}
    /\ plan.endpoint = Substituted(Template)
    /\ sent # <<>>

\* the stored history of the conversation the request names
Stored == Lookup(conversation_history, request.conversation_id)

(* C24: every process_message call that carries a conversation id,         *)
(* whatever its outcome (clarification, parse failure, tool failure,       *)
(* success or an internally caught exception), extends that conversation's *)
(* history by exactly two records, the user message followed by one        *)
(* assistant message.                                                      *)
C24_TwoRecords ==
    (Answered /\ request.conversation_id # "None") =>
        /\ Len(Stored) = Len(llm_call.context) + 2
        /\ SubSeq(Stored, 1, Len(llm_call.context)) = llm_call.context
        /\ Stored[Len(Stored) - 1] = Message("user", request.message)
        /\ Stored[Len(Stored)].role = "assistant"

\* the handler has issued a request to the target API
WebRequested == request # None /\ sent # <<>>

(* C25: in process_message an HTTP request to the target API is issued     *)
(* only after the model payload passed every resolver check (no error key, *)
(* action and parameters present, confidence >= 0.7, action mapped) and    *)
(* the mapped tool's required parameters were all present; on every other  *)
(* path no request to the target API is issued.                            *)
C25_RequestOnlyAfterChecks ==
    WebRequested =>
        /\ llm_response # None
        /\ WellFormed
        /\ High(ReadConfidence)
        /\ Mappable(intent_map, llm_response["action"])
        /\ intent_result.success
        /\ llm_response["parameters"].kind = "object"
        /\ Required(Lookup(tools, intent_result.action))
              \subseteq Keys(llm_response["parameters"].members)

\* the descriptor _register_tools makes for id, or None
Registered(id) ==
    IF \E i \in 1..Len(_register_tools) : _register_tools[i].key = id
    THEN _register_tools[CHOOSE i \in 1..Len(_register_tools) :
                            _register_tools[i].key = id].value
    ELSE None

(* C21: after any sequence of get_tool and execute_tool calls the registry *)
(* is unchanged: get_tool(id) called twice returns structurally identical  *)
(* descriptors (same method, endpoint action, required and optional        *)
(* parameters) for every registered id, and returns no descriptor for      *)
(* every unregistered id.                                                  *)
C21_RegistryUnchanged ==
    /\ [](tools = _register_tools)
    /\ [](\A id \in ToolNames : get_tool(tools, id) = Registered(id))
    /\ [][call'.origin = "get_tool" =>
             /\ tool_result' = Registered(call'.tool_name)
             /\ (call # None /\ call.origin = "get_tool"
                            /\ call.tool_name = call'.tool_name) =>
                   tool_result' = tool_result]_vars

\* get_tool has returned the descriptor of a tool after an execute_tool call
\* that issued requests through the client
C21_Witness ==
    /\ call # None /\ call.origin = "get_tool"
    /\ call.tool_name = "download_file"
    /\ tool_result = Registered("download_file")
    /\ tool_result.required_params = <<"project_id", "file_id">>
    /\ Len(sent) >= 2
    /\ response # None

(* C23: over any sequence of create_conversation and delete_conversation   *)
(* calls, including several within the same clock second,                  *)
(* create_conversation never returns an id that is already a key of the    *)
(* conversation store, and so never replaces an existing conversation's    *)
(* history with an empty one.                                              *)
C23_FreshConversationId ==
    [][CreateConversation =>
          /\ ~HasKey(conversation_history, answer'.data.conversation_id)
          /\ \A i \in 1..Len(conversation_history) :
                conversation_history'[i] = conversation_history[i]]_vars

====
